---- MODULE Spec2Model ----
(***************************************************************************)
(* A model of cfour_proc: the post-processing of a parsed CFOUR output.    *)
(*                                                                         *)
(*   print_roots.py                  the xncc root pipeline (main)         *)
(*   cfour_proc/print_roots_xvee.py  the xvee root pipeline (main)         *)
(*   cfour_proc/irrep_no_to_name.py  the irrep index                       *)
(*   print_normal_coordinates.py, cfour_proc/print_gradient.py,            *)
(*   cfour_proc/geometry.py          the queries on the document, and the  *)
(*                                   three scripts (main)                  *)
(*                                                                         *)
(* Representation.  A Python dict is a function over its keys (strings),   *)
(* a Python list is a sequence.  A str that the program formats or parses  *)
(* is a sequence of one-character strings; a constant message is a string. *)
(* A character that a string of this language cannot hold is the string of *)
(* its code point ("U+2013"), one element of the sequence.                 *)
(* A float is a fixed-point integer: total energies count 1e-3 au, EOM     *)
(* excitation energies and amplitudes count 1e-4 (the double nearest to    *)
(* k * 1e-4), so 0.1 is 1000.  An excitation energy the program computes   *)
(* is its product cut after the 4th decimal.  In the documents of the      *)
(* three scripts the frequencies, the displacements and the coordinates of *)
(* the atoms are whole numbers; a coordinate that distance_AU_to_A has     *)
(* converted is the record [angstrom |-> m], the float m * 1e-6.           *)
(***************************************************************************)
EXTENDS Integers, Sequences, FiniteSets, TLC

VARIABLES
    prog,              \* which script or query runs
    cfour,             \* the parsed document (json.load)
    args,              \* argparse namespace of the script
    pc,                \* position in main()
    roots,             \* the list of root dicts
    cc_energies,       \* xvee main: result of collect_ccsd
    stdout,            \* lines printed to sys.stdout
    stderr,            \* lines printed to sys.stderr
    raised,            \* "none" or the name of the uncaught exception
    irrep_no_to_name,  \* irrep_no_to_name.py: the dict under construction
    scan,              \* irrep_no_to_name.py: orbital entries still to visit
    amps,              \* threshold filter: the amplitude list given
    kept,              \* threshold filter: the list after each application
    returned,          \* a query on the document: what the call returned
    locals             \* a script on the document: main's local variables

vars == <<prog, cfour, args, pc, roots, cc_energies, stdout, stderr, raised,
          irrep_no_to_name, scan, amps, kept, returned, locals>>

(***************************************************************************)
(* Bounds of the enumerated inputs.                                        *)
(***************************************************************************)
MaxRoots == 3
MaxContainers == 2
MaxSolutions == 2
MaxSingles == 2
MaxAmps == 2
MaxMOs == 1
MaxSections == 2
MaxPrograms == 2
MaxVerbose == 2

(***************************************************************************)
(* Python built-ins.                                                       *)
(***************************************************************************)
EmptyDict == <<>>

SetKey(d, k, v) == (k :> v) @@ d

HasKey(d, k) == k \in DOMAIN d

Abs(x) == IF x < 0 THEN -x ELSE x

RECURSIVE Concat(_)
Concat(ss) == IF ss = <<>> THEN <<>> ELSE Head(ss) \o Concat(Tail(ss))

Map(s, F(_)) == [i \in 1..Len(s) |-> F(s[i])]

SeqsUpTo(S, n) == UNION {[1..k -> S] : k \in 0..n}

TotalAu(root) == root.energy.total.au

\* A sort that puts an element before the elements of equal key.
RECURSIVE InsertByKeyUnstable(_, _)
InsertByKeyUnstable(sorted, x) ==
    IF sorted = <<>> THEN <<x>>
    ELSE IF TotalAu(Head(sorted)) < TotalAu(x)
         THEN <<Head(sorted)>> \o InsertByKeyUnstable(Tail(sorted), x)
         ELSE <<x>> \o sorted

\* list.sort(key=...) is stable: an element goes after every element whose
\* key is not larger.
RECURSIVE InsertByKey(_, _)
InsertByKey(sorted, x) ==
    IF sorted = <<>> THEN <<x>>
    ELSE IF TotalAu(Head(sorted)) <= TotalAu(x)
         THEN <<Head(sorted)>> \o InsertByKey(Tail(sorted), x)
         ELSE <<x>> \o sorted

RECURSIVE SortFrom(_, _)
SortFrom(sorted, rest) ==
    IF rest = <<>> THEN sorted
    ELSE SortFrom(InsertByKey(sorted, Head(rest)), Tail(rest))

\* roots.sort(key=lambda x: x['energy']['total']['au'])
sort_by_total_energy(rs) == SortFrom(<<>>, rs)

(***************************************************************************)
(* irrep_no_to_name.py                                                     *)
(***************************************************************************)
IsScf(program) == program.name = "xvscf" \/ program.name = "xdqcscf"

\* The MOs sections visited by get_irrep_no_to_name, in the order visited.
MOsSections(doc) ==
    Concat(Map(SelectSeq(doc, IsScf),
               LAMBDA p : SelectSeq(p.sections, LAMBDA s : s.name = "MOs")))

\* The orbital entries in the order add_irrep is called on them.
ScanOrder(doc) ==
    Concat(Map(MOsSections(doc),
               LAMBDA s : s.data.occupied \o s.data.virtual))

\* An add_irrep that lets the last entry of an index win.
add_irrep_last_wins(mo, index) ==
    SetKey(index, mo.compsymm["#"], mo.compsymm.name)

add_irrep(mo, index) ==
    IF mo.compsymm["#"] \notin DOMAIN index
    THEN SetKey(index, mo.compsymm["#"], mo.compsymm.name)
    ELSE index

RECURSIVE AddIrreps(_, _)
AddIrreps(mos, index) ==
    IF mos = <<>> THEN index
    ELSE AddIrreps(Tail(mos), add_irrep(Head(mos), index))

get_irrep_no_to_name(doc) == AddIrreps(ScanOrder(doc), EmptyDict)

MOsWarning ==
    [msg |-> "Warning: Listing of MOs contains errors. Irrep names might be incorrect. (low risk)"]

\* What get_irrep_no_to_name prints to stderr.
MOsWarnings(doc) ==
    Map(SelectSeq(MOsSections(doc), LAMBDA s : s.metadata.ok = FALSE),
        LAMBDA s : MOsWarning)

(***************************************************************************)
(* Text: str.format of int and float, str.split, int() and float().        *)
(***************************************************************************)
Digits == <<"0", "1", "2", "3", "4", "5", "6", "7", "8", "9">>

RECURSIVE NatStr(_)
NatStr(n) ==
    IF n < 10 THEN <<Digits[n + 1]>>
    ELSE NatStr(n \div 10) \o <<Digits[(n % 10) + 1]>>

\* f"{n}" of an int
IntStr(n) == IF n < 0 THEN <<"-">> \o NatStr(-n) ELSE NatStr(n)

RECURSIVE Spaces(_)
Spaces(n) == IF n <= 0 THEN <<>> ELSE <<" ">> \o Spaces(n - 1)

\* f"{x:w}" of a number (right-aligned) and of a str (left-aligned)
PadLeft(s, w) == Spaces(w - Len(s)) \o s
PadRight(s, w) == s \o Spaces(w - Len(s))

\* The characters of the documents: U+0020 to U+007E, the white space and
\* the letters outside that range. Each row holds the character c with
\* ord(c), c.lower(), c.title() and whether str.title() lowers the
\* character that follows c (Python 3.11, Unicode 14.0). A character
\* without a row has no value below.
UnicodeData ==
    <<
     [c |-> "\t", ord |-> 9, lower |-> <<"\t">>, title |-> <<"\t">>, cased |-> FALSE],
     [c |-> "\n", ord |-> 10, lower |-> <<"\n">>, title |-> <<"\n">>, cased |-> FALSE],
     [c |-> "U+000B", ord |-> 11, lower |-> <<"U+000B">>, title |-> <<"U+000B">>, cased |-> FALSE],
     [c |-> "\f", ord |-> 12, lower |-> <<"\f">>, title |-> <<"\f">>, cased |-> FALSE],
     [c |-> "\r", ord |-> 13, lower |-> <<"\r">>, title |-> <<"\r">>, cased |-> FALSE],
     [c |-> "U+001C", ord |-> 28, lower |-> <<"U+001C">>, title |-> <<"U+001C">>, cased |-> FALSE],
     [c |-> "U+001D", ord |-> 29, lower |-> <<"U+001D">>, title |-> <<"U+001D">>, cased |-> FALSE],
     [c |-> "U+001E", ord |-> 30, lower |-> <<"U+001E">>, title |-> <<"U+001E">>, cased |-> FALSE],
     [c |-> "U+001F", ord |-> 31, lower |-> <<"U+001F">>, title |-> <<"U+001F">>, cased |-> FALSE],
     [c |-> " ", ord |-> 32, lower |-> <<" ">>, title |-> <<" ">>, cased |-> FALSE],
     [c |-> "!", ord |-> 33, lower |-> <<"!">>, title |-> <<"!">>, cased |-> FALSE],
     [c |-> "\"", ord |-> 34, lower |-> <<"\"">>, title |-> <<"\"">>, cased |-> FALSE],
     [c |-> "#", ord |-> 35, lower |-> <<"#">>, title |-> <<"#">>, cased |-> FALSE],
     [c |-> "$", ord |-> 36, lower |-> <<"$">>, title |-> <<"$">>, cased |-> FALSE],
     [c |-> "%", ord |-> 37, lower |-> <<"%">>, title |-> <<"%">>, cased |-> FALSE],
     [c |-> "&", ord |-> 38, lower |-> <<"&">>, title |-> <<"&">>, cased |-> FALSE],
     [c |-> "'", ord |-> 39, lower |-> <<"'">>, title |-> <<"'">>, cased |-> FALSE],
     [c |-> "(", ord |-> 40, lower |-> <<"(">>, title |-> <<"(">>, cased |-> FALSE],
     [c |-> ")", ord |-> 41, lower |-> <<")">>, title |-> <<")">>, cased |-> FALSE],
     [c |-> "*", ord |-> 42, lower |-> <<"*">>, title |-> <<"*">>, cased |-> FALSE],
     [c |-> "+", ord |-> 43, lower |-> <<"+">>, title |-> <<"+">>, cased |-> FALSE],
     [c |-> ",", ord |-> 44, lower |-> <<",">>, title |-> <<",">>, cased |-> FALSE],
     [c |-> "-", ord |-> 45, lower |-> <<"-">>, title |-> <<"-">>, cased |-> FALSE],
     [c |-> ".", ord |-> 46, lower |-> <<".">>, title |-> <<".">>, cased |-> FALSE],
     [c |-> "/", ord |-> 47, lower |-> <<"/">>, title |-> <<"/">>, cased |-> FALSE],
     [c |-> "0", ord |-> 48, lower |-> <<"0">>, title |-> <<"0">>, cased |-> FALSE],
     [c |-> "1", ord |-> 49, lower |-> <<"1">>, title |-> <<"1">>, cased |-> FALSE],
     [c |-> "2", ord |-> 50, lower |-> <<"2">>, title |-> <<"2">>, cased |-> FALSE],
     [c |-> "3", ord |-> 51, lower |-> <<"3">>, title |-> <<"3">>, cased |-> FALSE],
     [c |-> "4", ord |-> 52, lower |-> <<"4">>, title |-> <<"4">>, cased |-> FALSE],
     [c |-> "5", ord |-> 53, lower |-> <<"5">>, title |-> <<"5">>, cased |-> FALSE],
     [c |-> "6", ord |-> 54, lower |-> <<"6">>, title |-> <<"6">>, cased |-> FALSE],
     [c |-> "7", ord |-> 55, lower |-> <<"7">>, title |-> <<"7">>, cased |-> FALSE],
     [c |-> "8", ord |-> 56, lower |-> <<"8">>, title |-> <<"8">>, cased |-> FALSE],
     [c |-> "9", ord |-> 57, lower |-> <<"9">>, title |-> <<"9">>, cased |-> FALSE],
     [c |-> ":", ord |-> 58, lower |-> <<":">>, title |-> <<":">>, cased |-> FALSE],
     [c |-> ";", ord |-> 59, lower |-> <<";">>, title |-> <<";">>, cased |-> FALSE],
     [c |-> "<", ord |-> 60, lower |-> <<"<">>, title |-> <<"<">>, cased |-> FALSE],
     [c |-> "=", ord |-> 61, lower |-> <<"=">>, title |-> <<"=">>, cased |-> FALSE],
     [c |-> ">", ord |-> 62, lower |-> <<">">>, title |-> <<">">>, cased |-> FALSE],
     [c |-> "?", ord |-> 63, lower |-> <<"?">>, title |-> <<"?">>, cased |-> FALSE],
     [c |-> "@", ord |-> 64, lower |-> <<"@">>, title |-> <<"@">>, cased |-> FALSE],
     [c |-> "A", ord |-> 65, lower |-> <<"a">>, title |-> <<"A">>, cased |-> TRUE],
     [c |-> "B", ord |-> 66, lower |-> <<"b">>, title |-> <<"B">>, cased |-> TRUE],
     [c |-> "C", ord |-> 67, lower |-> <<"c">>, title |-> <<"C">>, cased |-> TRUE],
     [c |-> "D", ord |-> 68, lower |-> <<"d">>, title |-> <<"D">>, cased |-> TRUE],
     [c |-> "E", ord |-> 69, lower |-> <<"e">>, title |-> <<"E">>, cased |-> TRUE],
     [c |-> "F", ord |-> 70, lower |-> <<"f">>, title |-> <<"F">>, cased |-> TRUE],
     [c |-> "G", ord |-> 71, lower |-> <<"g">>, title |-> <<"G">>, cased |-> TRUE],
     [c |-> "H", ord |-> 72, lower |-> <<"h">>, title |-> <<"H">>, cased |-> TRUE],
     [c |-> "I", ord |-> 73, lower |-> <<"i">>, title |-> <<"I">>, cased |-> TRUE],
     [c |-> "J", ord |-> 74, lower |-> <<"j">>, title |-> <<"J">>, cased |-> TRUE],
     [c |-> "K", ord |-> 75, lower |-> <<"k">>, title |-> <<"K">>, cased |-> TRUE],
     [c |-> "L", ord |-> 76, lower |-> <<"l">>, title |-> <<"L">>, cased |-> TRUE],
     [c |-> "M", ord |-> 77, lower |-> <<"m">>, title |-> <<"M">>, cased |-> TRUE],
     [c |-> "N", ord |-> 78, lower |-> <<"n">>, title |-> <<"N">>, cased |-> TRUE],
     [c |-> "O", ord |-> 79, lower |-> <<"o">>, title |-> <<"O">>, cased |-> TRUE],
     [c |-> "P", ord |-> 80, lower |-> <<"p">>, title |-> <<"P">>, cased |-> TRUE],
     [c |-> "Q", ord |-> 81, lower |-> <<"q">>, title |-> <<"Q">>, cased |-> TRUE],
     [c |-> "R", ord |-> 82, lower |-> <<"r">>, title |-> <<"R">>, cased |-> TRUE],
     [c |-> "S", ord |-> 83, lower |-> <<"s">>, title |-> <<"S">>, cased |-> TRUE],
     [c |-> "T", ord |-> 84, lower |-> <<"t">>, title |-> <<"T">>, cased |-> TRUE],
     [c |-> "U", ord |-> 85, lower |-> <<"u">>, title |-> <<"U">>, cased |-> TRUE],
     [c |-> "V", ord |-> 86, lower |-> <<"v">>, title |-> <<"V">>, cased |-> TRUE],
     [c |-> "W", ord |-> 87, lower |-> <<"w">>, title |-> <<"W">>, cased |-> TRUE],
     [c |-> "X", ord |-> 88, lower |-> <<"x">>, title |-> <<"X">>, cased |-> TRUE],
     [c |-> "Y", ord |-> 89, lower |-> <<"y">>, title |-> <<"Y">>, cased |-> TRUE],
     [c |-> "Z", ord |-> 90, lower |-> <<"z">>, title |-> <<"Z">>, cased |-> TRUE],
     [c |-> "[", ord |-> 91, lower |-> <<"[">>, title |-> <<"[">>, cased |-> FALSE],
     [c |-> "\\", ord |-> 92, lower |-> <<"\\">>, title |-> <<"\\">>, cased |-> FALSE],
     [c |-> "]", ord |-> 93, lower |-> <<"]">>, title |-> <<"]">>, cased |-> FALSE],
     [c |-> "^", ord |-> 94, lower |-> <<"^">>, title |-> <<"^">>, cased |-> FALSE],
     [c |-> "_", ord |-> 95, lower |-> <<"_">>, title |-> <<"_">>, cased |-> FALSE],
     [c |-> "U+0060", ord |-> 96, lower |-> <<"U+0060">>, title |-> <<"U+0060">>, cased |-> FALSE],
     [c |-> "a", ord |-> 97, lower |-> <<"a">>, title |-> <<"A">>, cased |-> TRUE],
     [c |-> "b", ord |-> 98, lower |-> <<"b">>, title |-> <<"B">>, cased |-> TRUE],
     [c |-> "c", ord |-> 99, lower |-> <<"c">>, title |-> <<"C">>, cased |-> TRUE],
     [c |-> "d", ord |-> 100, lower |-> <<"d">>, title |-> <<"D">>, cased |-> TRUE],
     [c |-> "e", ord |-> 101, lower |-> <<"e">>, title |-> <<"E">>, cased |-> TRUE],
     [c |-> "f", ord |-> 102, lower |-> <<"f">>, title |-> <<"F">>, cased |-> TRUE],
     [c |-> "g", ord |-> 103, lower |-> <<"g">>, title |-> <<"G">>, cased |-> TRUE],
     [c |-> "h", ord |-> 104, lower |-> <<"h">>, title |-> <<"H">>, cased |-> TRUE],
     [c |-> "i", ord |-> 105, lower |-> <<"i">>, title |-> <<"I">>, cased |-> TRUE],
     [c |-> "j", ord |-> 106, lower |-> <<"j">>, title |-> <<"J">>, cased |-> TRUE],
     [c |-> "k", ord |-> 107, lower |-> <<"k">>, title |-> <<"K">>, cased |-> TRUE],
     [c |-> "l", ord |-> 108, lower |-> <<"l">>, title |-> <<"L">>, cased |-> TRUE],
     [c |-> "m", ord |-> 109, lower |-> <<"m">>, title |-> <<"M">>, cased |-> TRUE],
     [c |-> "n", ord |-> 110, lower |-> <<"n">>, title |-> <<"N">>, cased |-> TRUE],
     [c |-> "o", ord |-> 111, lower |-> <<"o">>, title |-> <<"O">>, cased |-> TRUE],
     [c |-> "p", ord |-> 112, lower |-> <<"p">>, title |-> <<"P">>, cased |-> TRUE],
     [c |-> "q", ord |-> 113, lower |-> <<"q">>, title |-> <<"Q">>, cased |-> TRUE],
     [c |-> "r", ord |-> 114, lower |-> <<"r">>, title |-> <<"R">>, cased |-> TRUE],
     [c |-> "s", ord |-> 115, lower |-> <<"s">>, title |-> <<"S">>, cased |-> TRUE],
     [c |-> "t", ord |-> 116, lower |-> <<"t">>, title |-> <<"T">>, cased |-> TRUE],
     [c |-> "u", ord |-> 117, lower |-> <<"u">>, title |-> <<"U">>, cased |-> TRUE],
     [c |-> "v", ord |-> 118, lower |-> <<"v">>, title |-> <<"V">>, cased |-> TRUE],
     [c |-> "w", ord |-> 119, lower |-> <<"w">>, title |-> <<"W">>, cased |-> TRUE],
     [c |-> "x", ord |-> 120, lower |-> <<"x">>, title |-> <<"X">>, cased |-> TRUE],
     [c |-> "y", ord |-> 121, lower |-> <<"y">>, title |-> <<"Y">>, cased |-> TRUE],
     [c |-> "z", ord |-> 122, lower |-> <<"z">>, title |-> <<"Z">>, cased |-> TRUE],
     [c |-> "{", ord |-> 123, lower |-> <<"{">>, title |-> <<"{">>, cased |-> FALSE],
     [c |-> "|", ord |-> 124, lower |-> <<"|">>, title |-> <<"|">>, cased |-> FALSE],
     [c |-> "}", ord |-> 125, lower |-> <<"}">>, title |-> <<"}">>, cased |-> FALSE],
     [c |-> "~", ord |-> 126, lower |-> <<"~">>, title |-> <<"~">>, cased |-> FALSE],
     [c |-> "U+0085", ord |-> 133, lower |-> <<"U+0085">>, title |-> <<"U+0085">>, cased |-> FALSE],
     [c |-> "U+00A0", ord |-> 160, lower |-> <<"U+00A0">>, title |-> <<"U+00A0">>, cased |-> FALSE],
     [c |-> "U+00C9", ord |-> 201, lower |-> <<"U+00E9">>, title |-> <<"U+00C9">>, cased |-> TRUE],
     [c |-> "U+00DF", ord |-> 223, lower |-> <<"U+00DF">>, title |-> <<"S", "s">>, cased |-> TRUE],
     [c |-> "U+00E9", ord |-> 233, lower |-> <<"U+00E9">>, title |-> <<"U+00C9">>, cased |-> TRUE],
     [c |-> "U+0130", ord |-> 304, lower |-> <<"i", "U+0307">>, title |-> <<"U+0130">>, cased |-> TRUE],
     [c |-> "U+01C4", ord |-> 452, lower |-> <<"U+01C6">>, title |-> <<"U+01C5">>, cased |-> TRUE],
     [c |-> "U+01C5", ord |-> 453, lower |-> <<"U+01C6">>, title |-> <<"U+01C5">>, cased |-> TRUE],
     [c |-> "U+01C6", ord |-> 454, lower |-> <<"U+01C6">>, title |-> <<"U+01C5">>, cased |-> TRUE],
     [c |-> "U+0307", ord |-> 775, lower |-> <<"U+0307">>, title |-> <<"U+0307">>, cased |-> FALSE],
     [c |-> "U+1680", ord |-> 5760, lower |-> <<"U+1680">>, title |-> <<"U+1680">>, cased |-> FALSE],
     [c |-> "U+2000", ord |-> 8192, lower |-> <<"U+2000">>, title |-> <<"U+2000">>, cased |-> FALSE],
     [c |-> "U+2001", ord |-> 8193, lower |-> <<"U+2001">>, title |-> <<"U+2001">>, cased |-> FALSE],
     [c |-> "U+2002", ord |-> 8194, lower |-> <<"U+2002">>, title |-> <<"U+2002">>, cased |-> FALSE],
     [c |-> "U+2003", ord |-> 8195, lower |-> <<"U+2003">>, title |-> <<"U+2003">>, cased |-> FALSE],
     [c |-> "U+2004", ord |-> 8196, lower |-> <<"U+2004">>, title |-> <<"U+2004">>, cased |-> FALSE],
     [c |-> "U+2005", ord |-> 8197, lower |-> <<"U+2005">>, title |-> <<"U+2005">>, cased |-> FALSE],
     [c |-> "U+2006", ord |-> 8198, lower |-> <<"U+2006">>, title |-> <<"U+2006">>, cased |-> FALSE],
     [c |-> "U+2007", ord |-> 8199, lower |-> <<"U+2007">>, title |-> <<"U+2007">>, cased |-> FALSE],
     [c |-> "U+2008", ord |-> 8200, lower |-> <<"U+2008">>, title |-> <<"U+2008">>, cased |-> FALSE],
     [c |-> "U+2009", ord |-> 8201, lower |-> <<"U+2009">>, title |-> <<"U+2009">>, cased |-> FALSE],
     [c |-> "U+200A", ord |-> 8202, lower |-> <<"U+200A">>, title |-> <<"U+200A">>, cased |-> FALSE],
     [c |-> "U+2013", ord |-> 8211, lower |-> <<"U+2013">>, title |-> <<"U+2013">>, cased |-> FALSE],
     [c |-> "U+2028", ord |-> 8232, lower |-> <<"U+2028">>, title |-> <<"U+2028">>, cased |-> FALSE],
     [c |-> "U+2029", ord |-> 8233, lower |-> <<"U+2029">>, title |-> <<"U+2029">>, cased |-> FALSE],
     [c |-> "U+202F", ord |-> 8239, lower |-> <<"U+202F">>, title |-> <<"U+202F">>, cased |-> FALSE],
     [c |-> "U+205F", ord |-> 8287, lower |-> <<"U+205F">>, title |-> <<"U+205F">>, cased |-> FALSE],
     [c |-> "U+212A", ord |-> 8490, lower |-> <<"k">>, title |-> <<"U+212A">>, cased |-> TRUE],
     [c |-> "U+3000", ord |-> 12288, lower |-> <<"U+3000">>, title |-> <<"U+3000">>, cased |-> FALSE]
    >>

\* The row of a character
Character(c) ==
    UnicodeData[CHOOSE i \in 1..Len(UnicodeData) : UnicodeData[i].c = c]

ord(c) == Character(c).ord

\* c.lower() of one character: a str, of two characters for some
LowerOf(c) == Character(c).lower

\* str.lower()
lower(chars) == Concat([i \in 1..Len(chars) |-> LowerOf(chars[i])])

\* str.title(): a character is lowered after a cased character, and is put
\* in title case after any other character and at the start.
title(chars) ==
    Concat([i \in 1..Len(chars) |->
               IF i > 1 /\ Character(chars[i - 1]).cased
               THEN LowerOf(chars[i]) ELSE Character(chars[i]).title])

\* a < b of two str
RECURSIVE StrBefore(_, _)
StrBefore(a, b) ==
    IF b = <<>> THEN FALSE
    ELSE IF a = <<>> THEN TRUE
    ELSE IF Head(a) = Head(b) THEN StrBefore(Tail(a), Tail(b))
    ELSE ord(Head(a)) < ord(Head(b))

RECURSIVE Zeros(_)
Zeros(n) == IF n <= 0 THEN <<>> ELSE <<"0">> \o Zeros(n - 1)

\* f"{n:.df}" of an int n
FmtInt(n, d) == IntStr(n) \o <<".">> \o Zeros(d)

\* f"{x:.6f}" of the float m * 1e-6
Fmt6(m) ==
    (IF m < 0 THEN <<"-">> ELSE <<>>)
    \o NatStr(Abs(m) \div 1000000) \o <<".">>
    \o Zeros(6 - Len(NatStr(Abs(m) % 1000000)))
    \o NatStr(Abs(m) % 1000000)

\* 2^k modulo 10000
RECURSIVE Pow2Mod(_)
Pow2Mod(k) == IF k = 0 THEN 1 ELSE (2 * Pow2Mod(k - 1)) % 10000

\* The number of doublings that take m (0 < m < 10000) to 10000 or above,
\* and the number of halvings that take m to below 20000.
RECURSIVE Doublings(_)
Doublings(m) == IF m >= 10000 THEN 0 ELSE 1 + Doublings(2 * m)

RECURSIVE Halvings(_)
Halvings(m) == IF m < 20000 THEN 0 ELSE 1 + Halvings(m \div 2)

\* The double nearest to m * 1e-4 (m > 0) is n * 2^-k with n of 53 bits;
\* the remainder of m * 2^k by 10000 tells on which side of the decimal it
\* lies: "exact" when the decimal is a double, else "above" or "below".
DoubleSide(m) ==
    LET k == 52 + Doublings(m) - Halvings(m)
        r == ((m % 10000) * Pow2Mod(k)) % 10000
    IN  IF r = 0 THEN "exact" ELSE IF 2 * r > 10000 THEN "above" ELSE "below"

\* |x| rounded to 3 decimals, as the correctly rounded decimal conversion
\* of the double does it (ties of the exact value go to the even digit);
\* m counts 1e-4, the result counts 1e-3.
Round3(m) ==
    LET q == m \div 10
        r == m % 10
    IN  IF r > 5 THEN q + 1
        ELSE IF r < 5 THEN q
        ELSE IF DoubleSide(m) = "above" THEN q + 1
        ELSE IF DoubleSide(m) = "below" THEN q
        ELSE IF q % 2 = 1 THEN q + 1 ELSE q

\* A conversion that cuts the 4th decimal off.
Fmt3Truncating(k) ==
    LET q == Abs(k) \div 10
    IN  (IF k < 0 THEN <<"-">> ELSE <<>>)
        \o NatStr(q \div 1000) \o <<".">>
        \o <<Digits[((q \div 100) % 10) + 1], Digits[((q \div 10) % 10) + 1],
             Digits[(q % 10) + 1]>>

\* f"{x:.3f}" of the float k * 1e-4
Fmt3(k) ==
    LET q == Round3(Abs(k))
    IN  (IF k < 0 THEN <<"-">> ELSE <<>>)
        \o NatStr(q \div 1000) \o <<".">>
        \o <<Digits[((q \div 100) % 10) + 1], Digits[((q \div 10) % 10) + 1],
             Digits[(q % 10) + 1]>>

\* f"{x:.3f}" of the float k * 1e-3
Fmt3Exact(k) == Fmt3(10 * k)

(***************************************************************************)
(* Optional values: None is the empty sequence, a value v is <<v>>.        *)
(***************************************************************************)
None == <<>>

Some(v) == <<v>>

(***************************************************************************)
(* Lines of output.                                                        *)
(***************************************************************************)
Msg(string) == [msg |-> string]

Text(chars) == [text |-> chars]

Json(value) == [json |-> value]

(***************************************************************************)
(* print_roots.py: extraction                                              *)
(***************************************************************************)
Named(sections, name) == SelectSeq(sections, LAMBDA s : s.name = name)

\* The value a loop variable assigned from the children named `name` has
\* after the loop over the children: the data of the last one, or what the
\* variable held before.
AssignedFrom(children, name, before) ==
    LET found == Named(children, name)
    IN  IF found = <<>> THEN before
        ELSE [bound |-> TRUE, value |-> found[Len(found)].data]

Unbound == [bound |-> FALSE]

\* The 'eom root' containers of one program with the data of their 'irrep'
\* container, in the order the nested loops reach them.
EomRootContainers(program) ==
    Concat(Map(Named(program.sections, "eom"), LAMBDA eom :
        Concat(Map(Named(eom.sections, "irrep"), LAMBDA eom_irrep :
            Map(Named(eom_irrep.sections, "eom root"), LAMBDA eom_root :
                [irrep_data |-> eom_irrep.data, eom_root |-> eom_root])))))

\* The body of the loop over the 'eom root' containers: loc holds the list
\* under construction and the function's local variables.
XnccRootStep(loc, c) ==
    LET children == c.eom_root.sections
        converged_root ==
            AssignedFrom(children, "converged root", loc.converged_root)
        root_energy == AssignedFrom(children, "EOM energy", loc.root_energy)
    IN  IF ~converged_root.bound \/ ~root_energy.bound
        THEN [loc EXCEPT !.converged_root = converged_root,
                         !.root_energy = root_energy,
                         !.raised = "UnboundLocalError"]
        ELSE [loc EXCEPT
                !.converged_root = converged_root,
                !.root_energy = root_energy,
                !.roots = @ \o <<[model |-> c.eom_root.data.model,
                                  irrep |-> c.irrep_data,
                                  energy |-> root_energy.value]
                                 @@ ("converged root" :> converged_root.value)>>]

RECURSIVE XnccRootLoop(_, _)
XnccRootLoop(loc, containers) ==
    IF containers = <<>> \/ loc.raised # "none" THEN loc
    ELSE XnccRootLoop(XnccRootStep(loc, Head(containers)), Tail(containers))

NoXnccRoots == Msg("Info: No xncc EOM roots found.")

\* Returns the roots, what was printed to stderr and the exception raised.
collect_eom_roots_xncc(doc) ==
    LET xnccs == Named(doc, "xncc")
        containers ==
            IF xnccs = <<>> THEN <<>> ELSE EomRootContainers(xnccs[1])
        loc == XnccRootLoop([roots |-> <<>>, converged_root |-> Unbound,
                             root_energy |-> Unbound, raised |-> "none"],
                            containers)
    IN  [roots |-> loc.roots,
         raised |-> loc.raised,
         stderr |-> IF loc.raised = "none" /\ loc.roots = <<>>
                    THEN <<NoXnccRoots>> ELSE <<>>]

(***************************************************************************)
(* Enrichment (the same code in print_roots.py and print_roots_xvee.py)    *)
(***************************************************************************)
\* for counter, root in enumerate(roots): root['ids'] = {'#': counter}
WithInsertionIds(rs) ==
    [i \in 1..Len(rs) |-> SetKey(rs[i], "ids", ("#" :> (i - 1)))]

\* for counter, root in enumerate(roots): root['ids']['energy #'] = counter
WithEnergyIds(rs) ==
    [i \in 1..Len(rs) |->
        [rs[i] EXCEPT !.ids = SetKey(@, "energy #", i - 1)]]

\* An add_root_ids that numbers the roots without sorting them.
add_root_ids_unsorted(rs) == WithEnergyIds(WithInsertionIds(rs))

\* An enrichment that numbers the roots after it has sorted them.
add_root_ids_after_sort(rs) ==
    WithEnergyIds(WithInsertionIds(sort_by_total_energy(rs)))

add_root_ids(rs) == WithEnergyIds(sort_by_total_energy(WithInsertionIds(rs)))

\* A counter that starts at 0.
FirstIrrepEnergyNoFromZero(energy_irrep, number) ==
    IF HasKey(energy_irrep, number) THEN energy_irrep[number] + 1 ELSE 0

\* The counter of irrep `number` after the if/else that steps it.
NextIrrepEnergyNo(energy_irrep, number) ==
    IF HasKey(energy_irrep, number) THEN energy_irrep[number] + 1 ELSE 1

\* A loop that gives an irrep without a name in the index a blank name.
RECURSIVE IrrepLoopLenient(_, _)
IrrepLoopLenient(st, index) ==
    IF st.i > Len(st.roots) THEN st
    ELSE LET irrep == st.roots[st.i].irrep
             number == irrep["#"]
             name == IF HasKey(index, number) THEN index[number] ELSE <<>>
             n == NextIrrepEnergyNo(st.energy_irrep, number)
             enriched == SetKey(SetKey(irrep, "name", name), "energy #", n)
         IN  IrrepLoopLenient(
                [st EXCEPT !.roots[st.i].irrep = enriched,
                           !.energy_irrep = SetKey(@, number, n),
                           !.i = @ + 1],
                index)

\* The loop over the sorted roots; st holds the list, the position of the
\* loop, the counters and the exception raised.
RECURSIVE IrrepLoop(_, _)
IrrepLoop(st, index) ==
    IF st.i > Len(st.roots) \/ st.raised # "none" THEN st
    ELSE LET irrep == st.roots[st.i].irrep
             number == irrep["#"]
         IN  IF ~HasKey(index, number)
             THEN [st EXCEPT !.raised = "KeyError"]
             ELSE LET n == NextIrrepEnergyNo(st.energy_irrep, number)
                      enriched == SetKey(SetKey(irrep, "name", index[number]),
                                         "energy #", n)
                  IN  IrrepLoop(
                        [st EXCEPT !.roots[st.i].irrep = enriched,
                                   !.energy_irrep = SetKey(@, number, n),
                                   !.i = @ + 1],
                        index)

\* Returns the list as the function leaves it and the exception raised.
add_irrep_energy_no_and_name(rs, doc) ==
    LET st == IrrepLoop([roots |-> sort_by_total_energy(rs), i |-> 1,
                         energy_irrep |-> EmptyDict, raised |-> "none"],
                        get_irrep_no_to_name(doc))
    IN  [roots |-> st.roots, raised |-> st.raised]

(***************************************************************************)
(* The threshold filter of the emitters                                    *)
(***************************************************************************)
SINGLE_THRESHOLD == 1000

DOUBLE_THRESHOLD == 1000

\* A filter that also keeps the entries at the threshold.
AtOrAboveThreshold(entries, threshold) ==
    SelectSeq(entries, LAMBDA e : Abs(e.amplitude) >= threshold)

\* A filter that removes from the list it walks: after a removal the walk
\* steps over the entry that moved into the freed place.
RECURSIVE RemovingWhileWalking(_, _)
RemovingWhileWalking(entries, threshold) ==
    IF entries = <<>> THEN <<>>
    ELSE IF Abs(Head(entries).amplitude) > threshold
         THEN <<Head(entries)>>
              \o RemovingWhileWalking(Tail(entries), threshold)
         ELSE IF Len(entries) = 1 THEN <<>>
              ELSE <<entries[2]>>
                   \o RemovingWhileWalking(Tail(Tail(entries)), threshold)

\* [e for e in entries if abs(e['amplitude']) > threshold]
AboveThreshold(entries, threshold) ==
    SelectSeq(entries, LAMBDA e : Abs(e.amplitude) > threshold)

(***************************************************************************)
(* print_roots.py: emitters                                                *)
(***************************************************************************)
\* f"1 {single['I']} 0 {single['A']} 0 {single['amplitude']:.3f}"
SingleLine(single) ==
    Text(<<"1", " ">> \o IntStr(single.I) \o <<" ", "0", " ">>
         \o IntStr(single.A) \o <<" ", "0", " ">> \o Fmt3(single.amplitude))

\* f"{double['I']} {double['J']} {double['A']} {double['B']} {amplitude:.3f}"
DoubleLine(double) ==
    Text(IntStr(double.I) \o <<" ">> \o IntStr(double.J) \o <<" ">>
         \o IntStr(double.A) \o <<" ">> \o IntStr(double.B) \o <<" ">>
         \o Fmt3(double.amplitude))

\* The count line and the lines of the thresholded singles of one root.
SinglesLines(root) ==
    LET singles == AboveThreshold(root["converged root"].singles,
                                  SINGLE_THRESHOLD)
    IN  <<Text(IntStr(Len(singles)))>> \o Map(singles, SingleLine)

\* The count line and the lines of the thresholded doubles of one root.
DoublesLines(root) ==
    LET doubles == AboveThreshold(root["converged root"].doubles,
                                  DOUBLE_THRESHOLD)
    IN  <<Text(IntStr(Len(doubles)))>> \o Map(doubles, DoubleLine)

\* An excite section that leaves out the roots without a single above the
\* threshold.
print_cfour_excite_section_omitting(rs) ==
    LET sorted == sort_by_total_energy(rs)
        listed == SelectSeq(sorted, LAMBDA root :
                      AboveThreshold(root["converged root"].singles,
                                     SINGLE_THRESHOLD) # <<>>)
    IN  [roots |-> sorted,
         out |-> <<Msg("%excite*"), Text(IntStr(Len(sorted)))>>
                 \o Concat(Map(listed, SinglesLines))]

\* Returns the list as the function leaves it and the lines printed.
print_cfour_excite_section(rs) ==
    LET sorted == sort_by_total_energy(rs)
    IN  [roots |-> sorted,
         out |-> <<Msg("%excite*"), Text(IntStr(Len(sorted)))>>
                 \o Concat(Map(sorted, SinglesLines))]

\* f"{id:2}: Root {energy_id+1:2d}/{n_roots}: {irrep_energy_no} "
\* f"{irrep_name:3} (irrep #{irrep_no}): {eV:6.3f} eV"
XnccSummaryLine(root, n_roots) ==
    Text(PadLeft(IntStr(root.ids["#"]), 2) \o <<":", " ", "R", "o", "o", "t", " ">>
         \o PadLeft(IntStr(root.ids["energy #"] + 1), 2) \o <<"/">>
         \o IntStr(n_roots) \o <<":", " ">>
         \o IntStr(root.irrep["energy #"]) \o <<" ">>
         \o PadRight(root.irrep.name, 3) \o <<" ", "(", "i", "r", "r", "e", "p", " ", "#">>
         \o IntStr(root.irrep["#"]) \o <<")", ":", " ">>
         \o PadLeft(Fmt3(root.energy.excitation.eV), 6) \o <<" ", "e", "V">>)

\* The lines of one root in the summary at print_lvl.
XnccSummaryOfRoot(root, n_roots, print_lvl) ==
    <<XnccSummaryLine(root, n_roots)>>
    \o (IF print_lvl < 2 THEN <<>>
        ELSE <<Msg("Singles:")>> \o SinglesLines(root)
             \o (IF print_lvl < 3 THEN <<>>
                 ELSE <<Msg("Doubles:")>> \o DoublesLines(root)
                      \o <<Msg("\n")>>))

\* Returns the list as the function leaves it and the lines printed.
print_eom_roots_summary(rs, print_lvl) ==
    LET sorted == sort_by_total_energy(rs)
    IN  [roots |-> sorted,
         out |-> Concat(Map(sorted, LAMBDA root :
                     XnccSummaryOfRoot(root, Len(sorted), print_lvl)))]

(***************************************************************************)
(* print_roots.py: the CBS payload                                         *)
(***************************************************************************)
\* The value a `for x in items: if x['name'] == ...: break` loop leaves in
\* x: the first match, else the last item.  items is not empty.
BreakAt(items, Match(_)) ==
    LET found == SelectSeq(items, Match)
    IN  IF found = <<>> THEN items[Len(items)] ELSE found[1]

\* The characters str.split() splits at: those of str.isspace().
Whitespace ==
    {" ", "\t", "\n", "\r", "\f", "U+000B", "U+001C", "U+001D", "U+001E",
     "U+001F", "U+0085", "U+00A0", "U+1680", "U+2000", "U+2001", "U+2002",
     "U+2003", "U+2004", "U+2005", "U+2006", "U+2007", "U+2008", "U+2009",
     "U+200A", "U+2028", "U+2029", "U+202F", "U+205F", "U+3000"}

RECURSIVE DropSpaces(_)
DropSpaces(chars) ==
    IF chars # <<>> /\ Head(chars) \in Whitespace
    THEN DropSpaces(Tail(chars))
    ELSE chars

RECURSIVE TakeToken(_)
TakeToken(chars) ==
    IF chars = <<>> \/ Head(chars) \in Whitespace THEN <<>>
    ELSE <<Head(chars)>> \o TakeToken(Tail(chars))

\* str.split(): the tokens between runs of whitespace
RECURSIVE Split(_)
Split(chars) ==
    LET rest == DropSpaces(chars)
        token == TakeToken(rest)
    IN  IF rest = <<>> THEN <<>>
        ELSE <<token>> \o Split(SubSeq(rest, Len(token) + 1, Len(rest)))

Returned(value, err) == [value |-> value, stderr |-> err, raised |-> "none"]

Raised(exception, err) ==
    [value |-> None, stderr |-> err, raised |-> exception]

get_basis(doc) ==
    IF doc = <<>> THEN Raised("UnboundLocalError", <<>>)
    ELSE LET xjoda == BreakAt(doc, LAMBDA p : p.name = "xjoda")
         IN  IF xjoda.name # "xjoda"
             THEN Returned(None, <<Msg("Warning xjoda section missing.")>>)
             ELSE IF xjoda.sections = <<>>
             THEN Raised("UnboundLocalError", <<>>)
             ELSE LET control_parameters ==
                          BreakAt(xjoda.sections,
                                  LAMBDA c : c.name = "control parameters")
                  IN  IF control_parameters.name # "control parameters"
                      THEN Returned(None,
                          <<Msg("Warning control parameters section missing.")>>)
                      ELSE LET tokens ==
                                   Split(control_parameters.data.BASIS.value)
                           IN  IF tokens = <<>> THEN Raised("IndexError", <<>>)
                               ELSE Returned(Some(tokens[1]), <<>>)

get_scf_energy(doc) ==
    IF doc = <<>> THEN Raised("UnboundLocalError", <<>>)
    ELSE LET scf_program == BreakAt(doc, IsScf)
         IN  IF ~IsScf(scf_program)
             THEN Returned(None,
                 <<Msg("Warning SCF program missing. Cannot extract SCF energy")>>)
             ELSE Returned(Some(scf_program.data.energy.au), <<>>)

\* The value is the dict returned, wrapped, or None.
get_cc_data(doc) ==
    IF doc = <<>> THEN Raised("UnboundLocalError", <<>>)
    ELSE LET xncc == BreakAt(doc, LAMBDA p : p.name = "xncc")
         IN  IF xncc.name # "xncc"
             THEN Returned(Some(EmptyDict),
                           <<Msg("Error! xncc section was not found!")>>)
             ELSE IF xncc.sections = <<>>
             THEN Raised("UnboundLocalError", <<>>)
             ELSE LET cc == BreakAt(xncc.sections, LAMBDA c : c.name = "cc")
                  IN  IF cc.name # "cc"
                      THEN Returned(None,
                          <<Msg("Error! cc subsection of xncc was not found!")>>)
                      ELSE Returned(
                          Some([calclevel |-> cc.data["CC level"],
                                cc_energy |-> cc.data.energy.total.au]),
                          <<>>)

\* An entry that carries the global energy rank for the per-irrep one.
CbsEntryGlobalRank(root) ==
    [irrep |-> [name |-> root.irrep.name]
               @@ ("energy #" :> root.ids["energy #"]),
     energy |-> root.energy.total.au,
     model |-> root.model]

\* One entry of cbs_input['EOM'].
CbsEntry(root) ==
    [irrep |-> [name |-> root.irrep.name]
               @@ ("energy #" :> root.irrep["energy #"]),
     energy |-> root.energy.total.au,
     model |-> root.model]

\* Returns the lines printed to stdout and to stderr and the exception
\* raised; the roots are only read.
print_eom_roots_for_CBS_fitting(rs, doc) ==
    LET basis == get_basis(doc)
        scf == get_scf_energy(doc)
        cc == get_cc_data(doc)
    IN  IF basis.raised # "none"
        THEN [out |-> <<>>, stderr |-> basis.stderr, raised |-> basis.raised]
        ELSE IF scf.raised # "none"
        THEN [out |-> <<>>, stderr |-> basis.stderr \o scf.stderr,
              raised |-> scf.raised]
        ELSE IF cc.raised # "none"
        THEN [out |-> <<>>,
              stderr |-> basis.stderr \o scf.stderr \o cc.stderr,
              raised |-> cc.raised]
        ELSE IF cc.value = None
        THEN [out |-> <<>>,
              stderr |-> basis.stderr \o scf.stderr \o cc.stderr,
              raised |-> "TypeError"]
        ELSE [out |-> <<Json([EOM |-> Map(rs, CbsEntry)]
                             @@ cc.value[1]
                             @@ [basis |-> basis.value, scf |-> scf.value])>>,
              stderr |-> basis.stderr \o scf.stderr \o cc.stderr,
              raised |-> "none"]

(***************************************************************************)
(* print_roots_xvee.py                                                     *)
(***************************************************************************)
\* The warning printed for a section whose metadata is not ok.
InvalidSection(section) ==
    [msg |-> "Warning: Cannot read from an ivalid section",
     name |-> section.name,
     start |-> IF HasKey(section, "start") THEN section.start ELSE 0,
     end |-> IF HasKey(section, "end") THEN section.end ELSE -1]

IsOk(section) == section.metadata.ok # FALSE

\* Returns the energies and what was printed to stderr.
collect_ccsd(doc) ==
    LET miracles ==
            Concat(Map(Named(doc, "xvcc"),
                       LAMBDA xvcc : Named(xvcc.sections, "A miracle")))
        cc_total_energies_au ==
            Map(SelectSeq(miracles, IsOk),
                LAMBDA miracle : miracle.data.energy.total.au)
    IN  [value |-> cc_total_energies_au,
         stderr |-> Map(SelectSeq(miracles, LAMBDA m : ~IsOk(m)),
                        InvalidSection)
                    \o (IF cc_total_energies_au = <<>>
                        THEN <<Msg("Info: No CC total energies found in xvcc.")>>
                        ELSE <<>>)]

\* A loop that visits the 'eom solution' sections of every xvee program.
EomSolutionsOfEveryProgram(doc) ==
    Concat(Map(Named(doc, "xvee"),
               LAMBDA xvee : Named(xvee.sections, "eom solution")))

\* The 'eom solution' sections the loop of collect_eom_roots_xvee visits.
EomSolutions(doc) ==
    LET xvees == Named(doc, "xvee")
    IN  IF xvees = <<>> THEN <<>>
        ELSE Named(xvees[1].sections, "eom solution")

\* A root of an 'eom solution' section.
XveeRoot(solution) ==
    [model |-> solution.data.model,
     irrep |-> solution.data.irrep,
     energy |-> solution.data.energy]

\* An extractor that does not test the metadata.
XveeRootsUntested(solutions) == Map(solutions, XveeRoot)

XveeRoots(solutions) == Map(SelectSeq(solutions, IsOk), XveeRoot)

\* Returns the roots and what was printed to stderr.
collect_eom_roots_xvee(doc) ==
    LET solutions == EomSolutions(doc)
        rs == XveeRoots(solutions)
    IN  [roots |-> rs,
         stderr |-> Map(SelectSeq(solutions, LAMBDA x : ~IsOk(x)),
                        InvalidSection)
                    \o (IF rs = <<>>
                        THEN <<Msg("Info: No xvee EOM roots found.")>>
                        ELSE <<>>)]

\* au2eV = 27.211386245988, all its digits: a tenth of
\* 272 + 1138 * 1e-4 + 6245 * 1e-8 + 988 * 1e-11
au2eV == <<272, 1138, 6245, 988>>

\* x * au2eV for x in 1e-3 au; the result counts 1e-4 eV, the digits after
\* the 4th decimal cut off (no product of an x # 0 ends at the 4th decimal).
TimesAu2eV(x) ==
    LET a == Abs(x)
        carry11 == (a * au2eV[4]) \div 1000
        carry8 == (a * au2eV[3] + carry11) \div 10000
        carry4 == (a * au2eV[2] + carry8) \div 10000
        q == a * au2eV[1] + carry4
    IN  IF x < 0 THEN -q ELSE q

\* f"{x:.3f}" of a product of TimesAu2eV, k its first four decimals: the
\* decimals cut off are not all 0, so a 4th decimal of 5 rounds up.
Fmt3Cut(k) ==
    LET q == (Abs(k) + 5) \div 10
    IN  (IF k < 0 THEN <<"-">> ELSE <<>>)
        \o NatStr(q \div 1000) \o <<".">>
        \o <<Digits[((q \div 100) % 10) + 1], Digits[((q \div 10) % 10) + 1],
             Digits[(q % 10) + 1]>>

\* An enrichment that subtracts the wrong way round.
add_excitation_energy_reversed(rs, cc_energy_au) ==
    [i \in 1..Len(rs) |->
        [rs[i] EXCEPT !.energy =
            SetKey(@, "excitation",
                   [au |-> cc_energy_au - rs[i].energy.total.au,
                    eV |-> TimesAu2eV(cc_energy_au - rs[i].energy.total.au)])]]

add_excitation_energy(rs, cc_energy_au) ==
    [i \in 1..Len(rs) |->
        [rs[i] EXCEPT !.energy =
            SetKey(@, "excitation",
                   [au |-> rs[i].energy.total.au - cc_energy_au,
                    eV |-> TimesAu2eV(rs[i].energy.total.au - cc_energy_au)])]]

\* The irrep and energy dicts of an xvee root are the dicts of the document
\* (no copy is made): what enrichment writes into them is written into the
\* 'eom solution' section the root came from.  The root with ids['#'] = i
\* came from the (i+1)-th ok solution of the first xvee program.
RootOfId(rs, id) ==
    LET found == SelectSeq(rs, LAMBDA r : r.ids["#"] = id) IN found[1]

OkSolutionsBefore(sections, j) ==
    Len(SelectSeq(SubSeq(sections, 1, j),
                  LAMBDA x : x.name = "eom solution" /\ IsOk(x)))

WrittenThrough(doc, rs) ==
    LET first == CHOOSE p \in 1..Len(doc) :
                    /\ doc[p].name = "xvee"
                    /\ \A q \in 1..(p - 1) : doc[q].name # "xvee"
    IN  IF rs = <<>> THEN doc
        ELSE [doc EXCEPT ![first].sections =
                [j \in 1..Len(@) |->
                    IF @[j].name = "eom solution" /\ IsOk(@[j])
                    THEN LET root == RootOfId(rs, OkSolutionsBefore(@, j) - 1)
                         IN  [@[j] EXCEPT !.data.irrep = root.irrep,
                                          !.data.energy = root.energy]
                    ELSE @[j]]]

\* f"{id:2}: Root {energy_id+1:2d}/{n_roots}: {irrep_energy_no} "
\* f"{irrep_name:3} (irrep #{irrep_no}): {eV:6.3f} eV ({au:6.3f} Ha)."
XveeSummaryLine(root, n_roots) ==
    Text(PadLeft(IntStr(root.ids["#"]), 2) \o <<":", " ", "R", "o", "o", "t", " ">>
         \o PadLeft(IntStr(root.ids["energy #"] + 1), 2) \o <<"/">>
         \o IntStr(n_roots) \o <<":", " ">>
         \o IntStr(root.irrep["energy #"]) \o <<" ">>
         \o PadRight(root.irrep.name, 3) \o <<" ", "(", "i", "r", "r", "e", "p", " ", "#">>
         \o IntStr(root.irrep["#"]) \o <<")", ":", " ">>
         \o PadLeft(Fmt3Cut(root.energy.excitation.eV), 6) \o <<" ", "e", "V", " ", "(">>
         \o PadLeft(Fmt3Exact(root.energy.total.au), 6) \o <<" ", "H", "a", ")", ".">>)

XveeSummaryOfRoot(root, n_roots, print_lvl) ==
    <<XveeSummaryLine(root, n_roots)>>
    \o (IF print_lvl < 2 THEN <<>>
        ELSE <<Msg("TODO: only basic printout is available so far for xvee.")>>)

\* Returns the list as the function leaves it and the lines printed.
print_eom_roots_summary_xvee(rs, print_lvl) ==
    LET sorted == sort_by_total_energy(rs)
    IN  [roots |-> sorted,
         out |-> Concat(Map(sorted, LAMBDA root :
                     XveeSummaryOfRoot(root, Len(sorted), print_lvl)))]

(***************************************************************************)
(* The queries of print_normal_coordinates.py, print_gradient.py and       *)
(* geometry.py.  Each returns the value (None for Python's None, <<v>> for *)
(* a value v), the lines printed to stderr and the exception raised.       *)
(***************************************************************************)
\* The programs named xjoda, in document order.
Xjodas(doc) == Named(doc, "xjoda")

\* print_normal_coordinates.py collect_point_group
collect_point_group(doc) ==
    IF Xjodas(doc) = <<>>
    THEN Returned(Some(<<>>),
        <<Msg("Error: xjoda section is missing. Cannot get point group.")>>)
    ELSE LET first_xjoda == Xjodas(doc)[1]
             sections == Named(first_xjoda.sections, "point group")
             corrupted == SelectSeq(sections, LAMBDA x : ~IsOk(x))
             listed == SelectSeq(sections, LAMBDA x :
                          HasKey(x.data, "computational point group"))
         IN  Returned(
                 IF listed = <<>> THEN Some(<<>>)
                 ELSE Some(listed[Len(listed)].data["computational point group"]),
                 Map(corrupted, LAMBDA x :
                     Msg("Error: Point group section of xjoda is corrupted.Point group might be invalid."))
                 \o (IF listed = <<>>
                     THEN <<Msg("Error: Cannot collect the point group from xjoda.")>>
                     ELSE <<>>))

\* A query that returns the data of the first section it meets.
collect_normal_coordinates_first(doc) ==
    IF Xjodas(doc) = <<>> THEN Raised("TypeError", <<>>)
    ELSE LET last_xjoda == Xjodas(doc)[Len(Xjodas(doc))]
             sections == Named(last_xjoda.sections, "normal coordinates")
         IN  IF \E i \in 1..Len(sections) :
                    ~HasKey(sections[i].data, "normal coordinates")
             THEN Returned(Some(<<>>),
                 <<Msg("Error: Normal coordinates of xjoda is missing data.")>>)
             ELSE IF sections = <<>>
             THEN Returned(None,
                 <<Msg("Warrning: Normal coordinates missing in xjoda.")>>)
             ELSE Returned(Some(sections[1].data["normal coordinates"]),
                           <<>>)

\* print_normal_coordinates.py collect_normal_coordinates
collect_normal_coordinates(doc) ==
    IF Xjodas(doc) = <<>> THEN Raised("TypeError", <<>>)
    ELSE LET last_xjoda == Xjodas(doc)[Len(Xjodas(doc))]
             sections == Named(last_xjoda.sections, "normal coordinates")
         IN  IF \E i \in 1..Len(sections) :
                    ~HasKey(sections[i].data, "normal coordinates")
             THEN Returned(Some(<<>>),
                 <<Msg("Error: Normal coordinates of xjoda is missing data.")>>)
             ELSE IF sections = <<>>
             THEN Returned(None,
                 <<Msg("Warrning: Normal coordinates missing in xjoda.")>>)
             ELSE Returned(
                 Some(sections[Len(sections)].data["normal coordinates"]),
                 <<>>)

\* One entry of the gradient list.
GradientEntry(component) ==
    ("mode #" :> component["mode #"])
    @@ ("frequency, cm-1" :> component.omega)
    @@ ("gradient, cm-1" :> component["dE/dQ, cm-1"])

\* print_gradient.py collect_gradient
collect_gradient(doc) ==
    IF Xjodas(doc) = <<>> THEN Raised("TypeError", <<>>)
    ELSE LET last_xjoda == Xjodas(doc)[Len(Xjodas(doc))]
             sections == Named(last_xjoda.sections,
                               "normal coordinate gradient")
         IN  IF \E i \in 1..Len(sections) :
                    ~HasKey(sections[i].data, "Normal Coordinate Gradient")
             THEN Returned(Some(<<>>),
                 <<Msg("Error: Normal coordinate gradient missing in xjoda.")>>)
             ELSE Returned(
                 Some(Concat(Map(sections, LAMBDA x :
                     Map(x.data["Normal Coordinate Gradient"],
                         GradientEntry)))),
                 <<>>)

\* print(f"Warning: xjoda finished with exit code {exit_code}")
ExitCodeWarning(program) ==
    [msg |-> "Warning: xjoda finished with exit code",
     exit_code |-> program.data["exit status"]]

\* The character U+2013 (en dash) of the f-string of 'output lines'.
EnDash == "U+2013"

\* One geometry of get_all_geometries.
Geometry(section) ==
    ("geometry a.u." :> section.data["geometry a.u."])
    @@ ("output lines" :>
            IntStr(section.start) \o <<" ", EnDash, " ">> \o IntStr(section.end))

\* A qcomp section that has the members a geometry is built from.
HasGeometry(section) ==
    /\ HasKey(section.data, "geometry a.u.")
    /\ HasKey(section, "start")
    /\ HasKey(section, "end")

\* The loop over the programs: acc holds the geometries collected and the
\* warnings printed so far.
RECURSIVE GeometriesLoop(_, _)
GeometriesLoop(acc, programs) ==
    IF programs = <<>> THEN Returned(Some(acc.geometries), acc.stderr)
    ELSE LET program == Head(programs)
             qcomps == Named(program.sections, "qcomp")
         IN  IF ~HasKey(program.data, "exit status")
             THEN Raised("KeyError", acc.stderr)
             ELSE LET warned ==
                          acc.stderr
                          \o (IF program.data["exit status"] # 0
                              THEN <<ExitCodeWarning(program)>> ELSE <<>>)
                  IN  IF \E i \in 1..Len(qcomps) : ~HasGeometry(qcomps[i])
                      THEN Raised("KeyError", warned)
                      ELSE GeometriesLoop(
                              [geometries |->
                                   acc.geometries \o Map(qcomps, Geometry),
                               stderr |-> warned],
                              Tail(programs))

\* geometry.py get_all_geometries
get_all_geometries(doc) ==
    GeometriesLoop([geometries |-> <<>>, stderr |-> <<>>], Xjodas(doc))

(***************************************************************************)
(* geometry.py: the conversion to angstrom and the xyz listing.            *)
(***************************************************************************)
\* au2A = 0.529177, counted in 1e-6
au2A == 529177

\* pos * au2A of a whole number of bohr
Angstrom(pos) == [angstrom |-> pos * au2A]

\* atom['Coordinates'] = [pos * au2A for pos in atom['Coordinates']]
ConvertedAtom(atom) == [atom EXCEPT !.Coordinates = Map(@, Angstrom)]

\* Returns the copy of the list.  Its atoms are the atoms of mol_c4: the
\* caller's action writes them to the document that holds them.
distance_AU_to_A(mol_c4) == Map(mol_c4, ConvertedAtom)

trim_non_atoms(mol) ==
    SelectSeq(mol, LAMBDA atom :
        atom["Z-matrix Symbol"] \notin {<<"X">>, <<"G", "H">>})

\* Returns geo with its new list of atoms.
trim_dummy_atoms(geo) ==
    [geo EXCEPT !["geometry a.u."] =
        SelectSeq(@, LAMBDA atom : atom["Z-matrix Symbol"] # <<"X">>)]

QcompLabel ==
    <<"Q", "C", "O", "M", "P", " ", "f", "r", "o", "m", " ", "l", "i", "n",
      "e", "s", " ">>

\* f"{atom['Z-matrix Symbol']:2s}" and f" {i:-12.6f}" of each coordinate
XyzAtomLine(atom) ==
    Text(PadRight(atom["Z-matrix Symbol"], 2)
         \o Concat(Map(atom.Coordinates, LAMBDA i :
                <<" ">> \o PadLeft(Fmt6(i.angstrom), 12))))

\* Returns the lines printed.
print_xyz_geometry(geometry) ==
    LET mol_xyz == distance_AU_to_A(geometry["geometry a.u."])
    IN  <<Text(NatStr(Len(mol_xyz))),
          Text(QcompLabel \o geometry["output lines"])>>
        \o Map(mol_xyz, XyzAtomLine)

\* The places <<program, section>> of the qcomp sections that
\* get_all_geometries lists, in its order.
QcompPlaces(doc) ==
    Concat([p \in 1..Len(doc) |->
        IF doc[p].name # "xjoda" THEN <<>>
        ELSE SelectSeq([s \in 1..Len(doc[p].sections) |-> <<p, s>>],
                       LAMBDA place :
                           doc[p].sections[place[2]].name = "qcomp")])

\* The document after distance_AU_to_A on the atoms of the qcomp section at
\* `place`; with no_dummy the atoms that trim_dummy_atoms left out of the
\* list are not converted.
ConvertedAt(doc, place, no_dummy) ==
    [doc EXCEPT ![place[1]].sections[place[2]].data["geometry a.u."] =
        Map(@, LAMBDA atom :
            IF no_dummy /\ atom["Z-matrix Symbol"] = <<"X">> THEN atom
            ELSE ConvertedAtom(atom))]

RECURSIVE ConvertedAll(_, _, _)
ConvertedAll(doc, places, no_dummy) ==
    IF places = <<>> THEN doc
    ELSE ConvertedAll(ConvertedAt(doc, Head(places), no_dummy),
                      Tail(places), no_dummy)

\* geo as the loop of main leaves it: trimmed with no_dummy, its atoms
\* converted by print_xyz_geometry.
PrintedGeometry(geo, no_dummy) ==
    LET trimmed == IF no_dummy THEN trim_dummy_atoms(geo) ELSE geo
    IN  [trimmed EXCEPT !["geometry a.u."] = distance_AU_to_A(@)]

\* for geo in geometries: the lines printed.
XyzListing(geometries, no_dummy) ==
    Concat(Map(geometries, LAMBDA geo :
        print_xyz_geometry(IF no_dummy THEN trim_dummy_atoms(geo) ELSE geo)))

(***************************************************************************)
(* print_normal_coordinates.py: the listings of main.                      *)
(***************************************************************************)
Frequency(mode) == mode["frequency, cm-1"]

\* The key of one mode; the key 0 is <<0>>.
sort_Mulliken(point_group, mode) ==
    IF lower(point_group) = <<"d", "2", "h">>
    THEN <<mode.symmetry, -Frequency(mode)>>
    ELSE <<0>>

\* a < b of two keys of sort_Mulliken for one point group
KeyBefore(a, b) ==
    /\ Len(a) = 2
    /\ \/ StrBefore(a[1], b[1])
       \/ a[1] = b[1] /\ a[2] < b[2]

\* list.sort is stable: a mode goes before the first mode of a larger key.
RECURSIVE InsertMode(_, _, _)
InsertMode(point_group, sorted, mode) ==
    IF sorted = <<>> THEN <<mode>>
    ELSE IF KeyBefore(sort_Mulliken(point_group, mode),
                      sort_Mulliken(point_group, Head(sorted)))
         THEN <<mode>> \o sorted
         ELSE <<Head(sorted)>> \o InsertMode(point_group, Tail(sorted), mode)

RECURSIVE SortModes(_, _, _)
SortModes(point_group, sorted, rest) ==
    IF rest = <<>> THEN sorted
    ELSE SortModes(point_group, InsertMode(point_group, sorted, Head(rest)),
                   Tail(rest))

\* normal_coordinates.sort(key=...) and mode['symmetry'].lower()
Mulliken(point_group, normal_coordinates) ==
    Map(SortModes(point_group, <<>>, normal_coordinates), LAMBDA mode :
        [mode EXCEPT !.symmetry = lower(@)])

\* The document with the list of the last 'normal coordinates' section of
\* the last xjoda program replaced: the list main sorts is that list.
WithNormalCoordinates(doc, modes) ==
    LET p == CHOOSE i \in 1..Len(doc) :
                 /\ doc[i].name = "xjoda"
                 /\ \A j \in (i + 1)..Len(doc) : doc[j].name # "xjoda"
        s == CHOOSE i \in 1..Len(doc[p].sections) :
                 /\ doc[p].sections[i].name = "normal coordinates"
                 /\ \A j \in (i + 1)..Len(doc[p].sections) :
                        doc[p].sections[j].name # "normal coordinates"
    IN  [doc EXCEPT ![p].sections[s].data["normal coordinates"] = modes]

\* The list that collect_normal_coordinates returned is a list of the
\* document (not None, and not the new list of its early return).
ListOfDocument(doc) ==
    /\ Xjodas(doc) # <<>>
    /\ LET sections == Named(Xjodas(doc)[Len(Xjodas(doc))].sections,
                             "normal coordinates")
       IN  /\ sections # <<>>
           /\ \A i \in 1..Len(sections) :
                  HasKey(sections[i].data, "normal coordinates")

xsim_input_normal_coordinates(normal_coordinates) ==
    Map(normal_coordinates, LAMBDA normal_coordinate :
        [symmetry |-> normal_coordinate.symmetry,
         kind |-> normal_coordinate.kind,
         coordinate |-> Map(normal_coordinate.coordinate, LAMBDA nc :
                            <<nc.x, nc.y, nc.z>>)]
        @@ ("frequency, cm-1" :> Frequency(normal_coordinate)))

PointGroupLabel ==
    <<"C", "o", "m", "p", "u", "t", "a", "t", "i", "o", "n", "a", "l", " ",
      "p", "o", "i", "n", "t", " ", "g", "r", "o", "u", "p", ":", " ">>

\* print_id of the mode at place id of the list
PrintId(args_, id) == IF args_.Mulliken THEN id ELSE id - 1

\* f"{print_id:>3d}: {symmetry:3} {kind.title()},{frequency:-8.2f}"
VerboseModeLine(print_id, mode) ==
    Text(PadLeft(IntStr(print_id), 3) \o <<":", " ">>
         \o PadRight(mode.symmetry, 3) \o <<" ">>
         \o title(mode.kind) \o <<",">>
         \o PadLeft(FmtInt(Frequency(mode), 2), 8))

\* f"{xyz['atomic symbol']:>3s} " and f" {xyz[idx]:-7.4f}" of x, y and z
VerboseAtomLine(xyz) ==
    Text(PadLeft(xyz["atomic symbol"], 3) \o <<" ">>
         \o Concat(Map(<<xyz.x, xyz.y, xyz.z>>, LAMBDA v :
                <<" ">> \o PadLeft(FmtInt(v, 4), 7))))

\* Returns the lines printed and the exception raised (normal_coordinates
\* is None or <<the list>>).
verbose_print(args_, point_group, normal_coordinates) ==
    LET header == <<Text(PointGroupLabel \o point_group),
                    Msg("Normal Coordinates:")>>
    IN  IF normal_coordinates = None
        THEN [out |-> header, raised |-> "TypeError"]
        ELSE LET modes == normal_coordinates[1]
             IN  [out |-> header \o Concat([id \in 1..Len(modes) |->
                     <<VerboseModeLine(PrintId(args_, id), modes[id])>>
                     \o (IF args_.verbose > 1
                         THEN Map(modes[id].coordinate, VerboseAtomLine)
                         ELSE <<>>)]),
                  raised |-> "none"]

\* f"{str(print_id):>3s}. {kind.title()} mode, {frequency} cm-1, {symmetry}"
XyzComment(print_id, mode) ==
    Text(PadLeft(IntStr(print_id), 3) \o <<".", " ">>
         \o title(mode.kind) \o <<" ", "m", "o", "d", "e", ",", " ">>
         \o IntStr(Frequency(mode)) \o <<" ", "c", "m", "-", "1", ",", " ">>
         \o mode.symmetry)

\* f"{atom_symbol:2}", f" {pos:-9.6f}" of each coordinate and
\* f" {vib[idx]:-8.5f}" of x, y and z
XyzModeLine(xyz, vib) ==
    Text(PadRight(xyz["Z-matrix Symbol"], 2)
         \o Concat(Map(xyz.Coordinates, LAMBDA pos :
                <<" ">> \o PadLeft(Fmt6(pos.angstrom), 9)))
         \o Concat(Map(<<vib.x, vib.y, vib.z>>, LAMBDA v :
                <<" ">> \o PadLeft(FmtInt(v, 5), 8))))

Mismatch(xyz, vib) ==
    [msg |-> "Warning! Mismatch between the geometry atoms orderand the vibrational atoms order in {}and {}.",
     atom_symbol |-> xyz["Z-matrix Symbol"],
     vib |-> vib["atomic symbol"]]

\* zip(geo, mode['coordinate'])
Zipped(geo, coordinate) ==
    [i \in 1..(IF Len(geo) < Len(coordinate) THEN Len(geo)
               ELSE Len(coordinate)) |->
        [xyz |-> geo[i], vib |-> coordinate[i]]]

\* The lines of the xyz listing of the modes.
XyzModes(args_, geo, modes) ==
    Concat([id \in 1..Len(modes) |->
        <<Text(NatStr(Len(geo))), XyzComment(PrintId(args_, id), modes[id])>>
        \o Map(Zipped(geo, modes[id].coordinate), LAMBDA pair :
               XyzModeLine(pair.xyz, pair.vib))])

\* The warnings of the xyz listing of the modes.
XyzMismatches(geo, modes) ==
    Concat(Map(modes, LAMBDA mode :
        Map(SelectSeq(Zipped(geo, mode.coordinate), LAMBDA pair :
                pair.xyz["Z-matrix Symbol"] # pair.vib["atomic symbol"]),
            LAMBDA pair : Mismatch(pair.xyz, pair.vib))))

(***************************************************************************)
(* print_gradient.py: the listing of main.                                 *)
(***************************************************************************)
\* print(value) of a dict
Repr(value) == [repr |-> value]

(***************************************************************************)
(* The documents given to the scripts.                                     *)
(***************************************************************************)
Program(name, data, sections) ==
    [name |-> name, data |-> data, sections |-> sections]

Section(name, data, sections) ==
    [name |-> name, metadata |-> [ok |-> TRUE], data |-> data,
     sections |-> sections]

A1 == <<"A", "1">>

B1 == <<"B", "1">>

Blank == <<>>

MO(no, name) == [compsymm |-> [name |-> name] @@ ("#" :> no)]

MOs(ok, occupied, virtual) ==
    [Section("MOs", [occupied |-> occupied, virtual |-> virtual], <<>>)
        EXCEPT !.metadata.ok = ok]

ScfEnergy == [energy |-> [au |-> -74960]]

\* The programs that define the irreps: none, one that names irreps 1 and
\* 2, one whose listing is not ok and names irrep 1 only.
ScfChoices == {"none", "full", "partial"}

ScfPrograms(choice) ==
    CASE choice = "none" -> <<>>
      [] choice = "full" ->
            <<Program("xvscf", ScfEnergy,
                <<MOs(TRUE, <<MO(1, A1), MO(2, B1)>>,
                            <<MO(1, Blank), MO(2, <<"1">>)>>)>>)>>
      [] choice = "partial" ->
            <<Program("xdqcscf", ScfEnergy,
                <<MOs(FALSE, <<MO(1, A1)>>, <<>>)>>)>>

XjodaPrograms(present) ==
    IF present
    THEN <<Program("xjoda", EmptyDict,
            <<Section("control parameters",
                      [BASIS |-> [value |->
                          <<"P", "V", "D", "Z", "\t", "[", " ", "2", "]",
                            "\n">>]],
                      <<>>)>>)>>
    ELSE <<>>

Irreps == {1, 2}

Energies == {-75040, -75010}

SingleEntries ==
    {[I |-> 2, A |-> 13, amplitude |-> 3500],
     [I |-> 11, A |-> 13, amplitude |-> 800],
     [I |-> 2, A |-> 104, amplitude |-> -1206],
     [I |-> 3, A |-> 9, amplitude |-> 1000],
     [I |-> 3, A |-> 10, amplitude |-> -1000],
     [I |-> 5, A |-> 20, amplitude |-> 1005]}

DoubleEntries ==
    {[I |-> 2, J |-> 3, A |-> 13, B |-> 14, amplitude |-> -2514],
     [I |-> 2, J |-> 2, A |-> 9, B |-> 9, amplitude |-> 1000],
     [I |-> 1, J |-> 3, A |-> 9, B |-> 20, amplitude |-> 1001],
     [I |-> 1, J |-> 1, A |-> 20, B |-> 20, amplitude |-> -999]}

DefaultSingles ==
    <<[I |-> 2, A |-> 13, amplitude |-> 3500],
      [I |-> 11, A |-> 13, amplitude |-> 800]>>

DefaultDoubles ==
    <<[I |-> 1, J |-> 1, A |-> 20, B |-> 20, amplitude |-> -999],
      [I |-> 2, J |-> 3, A |-> 13, B |-> 14, amplitude |-> -2514]>>

ConvergedRoot(singles, doubles) ==
    Section("converged root", [singles |-> singles, doubles |-> doubles],
            <<>>)

\* The excitation energy listed with a total energy (1e-4 eV).
ListedEv(au) == TimesAu2eV(au + 75235)

EomEnergy(au) ==
    Section("EOM energy",
            [total |-> [au |-> au], excitation |-> [eV |-> ListedEv(au)]],
            <<>>)

EomRoot(children) ==
    Section("eom root", [model |-> "EOMEE-CCSD"], children)

IrrepSection(no, eom_roots) == Section("irrep", ("#" :> no), eom_roots)

CcSection ==
    Section("cc", [energy |-> [total |-> [au |-> -75235]]]
                  @@ ("CC level" :> "CCSD"), <<>>)

\* The xncc program with the given 'irrep' containers in its eom section.
XnccProgram(with_cc, irrep_sections) ==
    Program("xncc", EmptyDict,
            (IF with_cc THEN <<CcSection>> ELSE <<>>)
            \o <<Section("eom", EmptyDict, irrep_sections)>>)

\* One 'irrep' container per described root.
RootsOf(descriptions) ==
    Map(descriptions, LAMBDA d :
        IrrepSection(d.irrep,
            <<EomRoot(<<ConvergedRoot(DefaultSingles, DefaultDoubles),
                        EomEnergy(d.au)>>)>>))

\* The children of an 'eom root' container, by what is present.
ChildrenChoices == {"both", "converged root", "EOM energy", "neither"}

Children(choice, au) ==
    (IF choice \in {"both", "converged root"}
     THEN <<ConvergedRoot(DefaultSingles, DefaultDoubles)>> ELSE <<>>)
    \o (IF choice \in {"both", "EOM energy"}
        THEN <<EomEnergy(au)>> ELSE <<>>)

\* The xncc programs of a document with several: one without roots and one
\* with a root of each irrep.
XnccChoices ==
    {XnccProgram(TRUE, <<>>),
     XnccProgram(TRUE, RootsOf(<<[irrep |-> 1, au |-> -75010]>>)),
     XnccProgram(TRUE, RootsOf(<<[irrep |-> 2, au |-> -75040]>>))}

\* Documents of the xncc pipeline:
\*   roots of both irreps and of equal or different energies, in any order
\*   of extraction, with each choice of the irrep-defining program;
\*   one irrep container whose 'eom root' containers lack children;
\*   one root with each list of singles;
\*   several xncc programs, one after the other;
\*   documents without xjoda, cc section or xncc program; the empty one.
XnccDocs ==
    {ScfPrograms(scf) \o XjodaPrograms(TRUE)
        \o <<XnccProgram(TRUE, RootsOf(d))>> :
        scf \in ScfChoices,
        d \in SeqsUpTo([irrep : Irreps, au : Energies], MaxRoots)}
    \cup
    {ScfPrograms("full") \o XjodaPrograms(TRUE)
        \o <<XnccProgram(TRUE,
              <<IrrepSection(1,
                  [i \in 1..Len(c) |->
                      EomRoot(Children(c[i], -75000 - 10 * i))])>>)>> :
        c \in SeqsUpTo(ChildrenChoices, MaxContainers)}
    \cup
    {ScfPrograms("full") \o XjodaPrograms(TRUE)
        \o <<XnccProgram(TRUE,
              <<IrrepSection(2,
                  <<EomRoot(<<ConvergedRoot(singles, DefaultDoubles),
                              EomEnergy(-75010)>>)>>)>>)>> :
        singles \in SeqsUpTo(SingleEntries, MaxSingles)}
    \cup
    {ScfPrograms("full") \o XjodaPrograms(xjoda)
        \o <<XnccProgram(with_cc, RootsOf(<<[irrep |-> 1, au |-> -75010]>>))>> :
        xjoda \in BOOLEAN, with_cc \in BOOLEAN}
    \cup
    {ScfPrograms("full") \o XjodaPrograms(TRUE) \o programs :
        programs \in SeqsUpTo(XnccChoices, MaxPrograms)}
    \cup
    {<<>>, ScfPrograms("full") \o XjodaPrograms(TRUE)}

Solution(ok, span, irrep, au) ==
    LET section == [Section("eom solution",
                            [model |-> "EOMEE-CCSD",
                             irrep |-> ("#" :> irrep),
                             energy |-> [total |-> [au |-> au]]], <<>>)
                       EXCEPT !.metadata.ok = ok]
    IN  (IF span \in {"both", "start"} THEN [start |-> 120] ELSE EmptyDict)
        @@ (IF span \in {"both", "end"} THEN [end |-> 180] ELSE EmptyDict)
        @@ section

\* The 'eom solution' sections: the ok ones of each irrep and energy, the
\* not-ok ones with each combination of start and end markers.
SolutionChoices ==
    {Solution(TRUE, "both", irrep, au) : irrep \in Irreps, au \in Energies}
    \cup {Solution(FALSE, span, 1, -75040) :
            span \in {"both", "start", "end", "neither"}}

Miracle(ok) ==
    [Section("A miracle", [energy |-> [total |-> [au |-> -75235]]], <<>>)
        EXCEPT !.metadata.ok = ok]

XvccPrograms(present) ==
    IF present THEN <<Program("xvcc", EmptyDict, <<Miracle(TRUE)>>)>>
    ELSE <<>>

\* Two xvcc programs with three 'A miracle' sections: the first is not ok,
\* the others list different energies.
TwoXvccPrograms ==
    <<Program("xvcc", EmptyDict,
              <<Miracle(FALSE),
                [Miracle(TRUE) EXCEPT !.data.energy.total.au = -75200]>>),
      Program("xvcc", EmptyDict, <<Miracle(TRUE)>>)>>

\* The xvee programs of a document with several: one without solutions and
\* one with a solution of each irrep.
XveeChoices ==
    {Program("xvee", EmptyDict, <<>>),
     Program("xvee", EmptyDict, <<Solution(TRUE, "both", 1, -75040)>>),
     Program("xvee", EmptyDict, <<Solution(TRUE, "both", 2, -75010)>>)}

\* Documents of the xvee pipeline: each list of solutions with each choice
\* of the irrep-defining program, with several reference energies and
\* without a reference energy; several xvee programs, the second xvcc
\* program after the first of them.
XveeDocs ==
    {ScfPrograms(scf) \o XvccPrograms(TRUE)
        \o <<Program("xvee", EmptyDict, solutions)>> :
        scf \in ScfChoices,
        solutions \in SeqsUpTo(SolutionChoices, MaxSolutions)}
    \cup
    {ScfPrograms("full") \o TwoXvccPrograms
        \o <<Program("xvee", EmptyDict, solutions)>> :
        solutions \in SeqsUpTo({Solution(TRUE, "both", 1, au) : au \in Energies},
                               MaxSolutions)}
    \cup
    {ScfPrograms("full") \o <<TwoXvccPrograms[1]>>
        \o (IF programs = <<>> THEN <<>>
            ELSE <<programs[1]>> \o <<TwoXvccPrograms[2]>> \o Tail(programs)) :
        programs \in SeqsUpTo(XveeChoices, MaxPrograms)}
    \cup
    {ScfPrograms("full")
        \o <<Program("xvee", EmptyDict, <<Solution(TRUE, "both", 1, -75010)>>)>>,
     ScfPrograms("full") \o XvccPrograms(TRUE),
     <<>>}

\* A mode of the normal coordinates and a component of the gradient.
Mode(symmetry, frequency) ==
    [symmetry |-> symmetry,
     kind |-> <<"V", "I", "B", "R", "A", "T", "I", "O", "N">>,
     coordinate |-> <<>>]
    @@ ("frequency, cm-1" :> frequency)

Component(mode, omega, gradient) ==
    ("mode #" :> mode) @@ [omega |-> omega] @@ ("dE/dQ, cm-1" :> gradient)

Atom(symbol, number, coordinates) ==
    ("Z-matrix Symbol" :> symbol) @@ ("Atomic Number" :> number)
    @@ [Coordinates |-> coordinates]

NormalCoordinates(modes) ==
    Section("normal coordinates", ("normal coordinates" :> modes), <<>>)

Gradient(components) ==
    Section("normal coordinate gradient",
            ("Normal Coordinate Gradient" :> components), <<>>)

PointGroup(ok, data) ==
    [Section("point group", data, <<>>) EXCEPT !.metadata.ok = ok]

Qcomp(start, end, atoms) ==
    [start |-> start, end |-> end]
    @@ Section("qcomp", ("geometry a.u." :> atoms), <<>>)

\* The sections of an xjoda program: each block with its data, and the
\* normal coordinates, the gradient and the point group without it.
XjodaSections ==
    {Section("control parameters",
             [BASIS |-> [value |-> <<"U+00A0", "a", "u", "g", "-", "P", "V", "T", "Z", "\n">>]],
             <<>>),
     PointGroup(TRUE, ("computational point group" :> <<"C", "2", "v">>)),
     PointGroup(FALSE, EmptyDict),
     NormalCoordinates(<<Mode(<<"A", "1">>, 1200), Mode(<<"B", "2">>, 800)>>),
     NormalCoordinates(<<Mode(<<"B", "1">>, 300)>>),
     Section("normal coordinates", EmptyDict, <<>>),
     Gradient(<<Component(1, 1200, -35)>>),
     Section("normal coordinate gradient", EmptyDict, <<>>),
     Qcomp(120, 125, <<Atom(<<"X">>, 0, <<0, 0, 0>>), Atom(<<"O">>, 8, <<0, 0, 1900>>)>>)}

Xjoda(exit_status, sections) ==
    Program("xjoda", ("exit status" :> exit_status), sections)

\* An xjoda program that lists every block.
FullXjoda ==
    Xjoda(0, <<Section("control parameters",
                       [BASIS |-> [value |-> <<"P", "V", "D", "Z">>]], <<>>),
               PointGroup(TRUE, ("computational point group" :> <<"D", "2", "h">>)),
               NormalCoordinates(<<Mode(<<"A", "g">>, 3100)>>),
               Gradient(<<Component(1, 3100, 12), Component(2, 1500, 0)>>),
               Qcomp(40, 44, <<Atom(<<"C">>, 6, <<0, 0, -6001>>)>>)>>)

\* Programs of a document that are not the xjoda under test: xjoda with
\* and without sections and without exit status, the SCF program, xncc
\* with and without sections and without its cc section, and a program no
\* query looks for.
OtherPrograms ==
    {FullXjoda,
     Xjoda(1, <<>>),
     Program("xjoda", EmptyDict, <<>>),
     ScfPrograms("full")[1],
     XnccProgram(TRUE, <<>>),
     XnccProgram(FALSE, <<>>),
     Program("xncc", EmptyDict, <<>>),
     Program("xvmol", EmptyDict, <<Section("integrals", EmptyDict, <<>>)>>)}

\* Documents of the queries: an xjoda program with each list of sections,
\* alone or after another program; each list of the other programs.
QueryDocs ==
    {before \o <<Xjoda(0, sections)>> :
        before \in {<<>>, <<FullXjoda>>, <<ScfPrograms("full")[1]>>},
        sections \in SeqsUpTo(XjodaSections, MaxSections)}
    \cup SeqsUpTo(OtherPrograms, MaxPrograms)

\* One atom of a mode's 'coordinate' list.
Displacement(symbol, x, y, z) ==
    ("atomic symbol" :> symbol) @@ [x |-> x, y |-> y, z |-> z]

Vibration(symmetry, frequency, coordinate) ==
    [Mode(symmetry, frequency) EXCEPT !.coordinate = coordinate]

\* The xjoda programs of the scripts' documents (coordinates and
\* frequencies are whole numbers):
\*   a D2h molecule with a dummy atom and modes out of Mulliken's order;
\*   a molecule of exit status 1 whose modes list the atoms in another
\*   order than the geometry; a molecule whose point group is written in
\*   upper case and whose symmetries and kinds hold letters outside
\*   U+0020..U+007E; a program without sections; one whose normal
\*   coordinates lack the data; one without exit status.
ScriptXjodas ==
    {Xjoda(0, <<PointGroup(TRUE,
                    ("computational point group" :> <<"D", "2", "h">>)),
                NormalCoordinates(
                    <<Vibration(<<"B", "1", "u">>, 300,
                        <<Displacement(<<"C">>, 0, 0, 1),
                          Displacement(<<"O">>, 0, 0, -1)>>),
                      Vibration(<<"A", "g">>, 3100,
                        <<Displacement(<<"C">>, 1, 0, 0),
                          Displacement(<<"O">>, -1, 0, 0)>>),
                      Vibration(<<"B", "1", "u">>, 900,
                        <<Displacement(<<"C">>, 0, -2, 0),
                          Displacement(<<"O">>, 0, 12, 0)>>)>>),
                Qcomp(40, 44, <<Atom(<<"X">>, 0, <<0, 1, 0>>),
                                Atom(<<"C">>, 6, <<0, 0, -2>>),
                                Atom(<<"O">>, 8, <<0, 0, 3>>)>>)>>),
     Xjoda(1, <<PointGroup(TRUE,
                    ("computational point group" :> <<"C", "2", "v">>)),
                Qcomp(120, 125, <<Atom(<<"H">>, 1, <<-1, 0, 20>>),
                                  Atom(<<"O">>, 8, <<0, 0, 0>>),
                                  Atom(<<"G", "H">>, 0, <<1, 0, 0>>)>>),
                NormalCoordinates(
                    <<Vibration(<<"B", "2">>, 800,
                        <<Displacement(<<"O">>, 0, 1, 0),
                          Displacement(<<"H">>, 0, -1, 0)>>),
                      Vibration(<<"A", "1">>, 1200,
                        <<Displacement(<<"O">>, 0, 0, 1)>>)>>)>>),
     Xjoda(0, <<PointGroup(TRUE,
                    ("computational point group" :> <<"D", "2", "H">>)),
                NormalCoordinates(
                    <<[Vibration(<<"U+212A", "1">>, 700,
                          <<Displacement(<<"N">>, 0, 1, 0)>>)
                          EXCEPT !.kind = <<"U+01C6", "U+00DF">>],
                      [Vibration(<<"U+0130", "g">>, 500,
                          <<Displacement(<<"N">>, 1, 0, 0)>>)
                          EXCEPT !.kind = <<"U+00E9", "a", " ", "U+00C9",
                                            "b">>],
                      [Vibration(<<"U+00C9", "a">>, 500,
                          <<Displacement(<<"N">>, 0, 0, 1)>>)
                          EXCEPT !.kind = <<"a", "U+00E9", "b">>]>>),
                Qcomp(3, 5, <<Atom(<<"N">>, 7, <<0, 0, 1>>)>>)>>),
     Xjoda(0, <<>>),
     Xjoda(0, <<Section("normal coordinates", EmptyDict, <<>>),
                Qcomp(7, 9, <<Atom(<<"H", "e">>, 2, <<0, 0, 0>>)>>)>>),
     Program("xjoda", EmptyDict, <<>>)}

\* Documents of print_normal_coordinates.py and geometry.py.
XjodaDocs == SeqsUpTo(ScriptXjodas \cup {ScfPrograms("full")[1]}, MaxPrograms)

\* Documents of print_gradient.py: xjoda with a gradient and with a
\* gradient section that lacks the data, xncc with a root and with an
\* 'eom root' container without children, xvee with an ok and a not-ok
\* solution.
GradientPrograms ==
    {FullXjoda,
     Xjoda(0, <<Gradient(<<Component(1, 1200, -35)>>),
                Section("normal coordinate gradient", EmptyDict, <<>>)>>),
     XnccProgram(TRUE, RootsOf(<<[irrep |-> 1, au |-> -75010]>>)),
     XnccProgram(TRUE, <<IrrepSection(1, <<EomRoot(<<>>)>>)>>),
     Program("xvee", EmptyDict, <<Solution(TRUE, "both", 2, -75010),
                                  Solution(FALSE, "start", 1, -75040)>>)}

GradientDocs == SeqsUpTo(GradientPrograms, MaxPrograms)

\* argparse namespaces of the three scripts; -v is a count.
NcArgs ==
    [json : BOOLEAN, Mulliken : BOOLEAN, verbose : 0..MaxVerbose,
     xyz : BOOLEAN]

GeometryArgs == [xyz : BOOLEAN, no_dummy : BOOLEAN]

GradientArgs == [json : BOOLEAN, verbose : 0..MaxVerbose]


ArgsChoices ==
    [cbs : BOOLEAN, excite : BOOLEAN, json : BOOLEAN, summary : 0..3]

\* Documents of irrep_no_to_name.py: an xvscf program with two MOs sections,
\* a program that is no SCF program with an MOs section of its own, and an
\* xdqcscf program with an MOs section that is not ok.
MOEntries == {MO(1, A1), MO(1, Blank), MO(1, B1), MO(2, B1)}

IrrepDocs ==
    {<<Program("xvscf", ScfEnergy,
               <<MOs(TRUE, occupied, virtual),
                 MOs(TRUE, <<MO(2, A1)>>, <<>>)>>),
       Program("xjoda", EmptyDict, <<MOs(TRUE, <<MO(1, <<"X">>)>>, <<>>)>>),
       Program("xdqcscf", ScfEnergy,
               <<Section("SCF", EmptyDict, <<>>),
                 MOs(FALSE, later, <<MO(2, Blank)>>)>>)>> :
        occupied \in SeqsUpTo(MOEntries, MaxMOs),
        virtual \in SeqsUpTo(MOEntries, MaxMOs),
        later \in SeqsUpTo(MOEntries, MaxMOs)}

\* What get_irrep_no_to_name does in the order it does it: a warning for an
\* MOs section that is not ok, then add_irrep on each of its entries.
ScanItems(doc) ==
    Concat(Map(MOsSections(doc), LAMBDA s :
        (IF s.metadata.ok = FALSE THEN <<[warning |-> MOsWarning]>> ELSE <<>>)
        \o Map(s.data.occupied \o s.data.virtual, LAMBDA mo : [mo |-> mo])))

\* The keys of the dict in the order of their insertion.
RECURSIVE FirstSeen(_, _)
FirstSeen(mos, seen) ==
    IF mos = <<>> THEN <<>>
    ELSE LET no == Head(mos).compsymm["#"]
         IN  IF no \in seen THEN FirstSeen(Tail(mos), seen)
             ELSE <<no>> \o FirstSeen(Tail(mos), seen \cup {no})

(***************************************************************************)
(* The runs.                                                               *)
(***************************************************************************)
NoArgs == [cbs |-> FALSE, excite |-> FALSE, json |-> FALSE, summary |-> 0]

NoAmps == [singles |-> <<>>, doubles |-> <<>>]

\* print_roots.py and print_roots_xvee.py, after get_args and json.load
Init ==
    /\ prog \in {"xncc", "xvee"}
    /\ cfour \in IF prog = "xncc" THEN XnccDocs ELSE XveeDocs
    /\ args \in ArgsChoices
    /\ pc = IF prog = "xncc" THEN "collect" ELSE "collect_ccsd"
    /\ roots = <<>>
    /\ cc_energies = <<>>
    /\ stdout = <<>>
    /\ stderr = <<>>
    /\ raised = "none"
    /\ irrep_no_to_name = EmptyDict
    /\ scan = <<>>
    /\ amps = NoAmps
    /\ kept = NoAmps
    /\ returned = None
    /\ locals = EmptyDict

\* irrep_no_to_name.py, after json.load
InitIrrep ==
    /\ prog = "irrep"
    /\ cfour \in IrrepDocs
    /\ args = NoArgs
    /\ pc = "get_irrep_no_to_name"
    /\ roots = <<>>
    /\ cc_energies = <<>>
    /\ stdout = <<>>
    /\ stderr = <<>>
    /\ raised = "none"
    /\ irrep_no_to_name = EmptyDict
    /\ scan = ScanItems(cfour)
    /\ amps = NoAmps
    /\ kept = NoAmps
    /\ returned = None
    /\ locals = EmptyDict

\* The threshold filter given the amplitudes of a converged root
InitFilter ==
    /\ prog = "filter"
    /\ cfour = <<>>
    /\ args = NoArgs
    /\ pc = "given"
    /\ roots = <<>>
    /\ cc_energies = <<>>
    /\ stdout = <<>>
    /\ stderr = <<>>
    /\ raised = "none"
    /\ irrep_no_to_name = EmptyDict
    /\ scan = <<>>
    /\ amps \in [singles : SeqsUpTo(SingleEntries, MaxAmps),
                 doubles : SeqsUpTo(DoubleEntries, MaxAmps)]
    /\ kept = amps
    /\ returned = None
    /\ locals = EmptyDict

\* A statement of main ends: the lines it printed, and the statement that
\* follows or the exception it raised (the run halts at the statement).
Ends(out, err, exception, next) ==
    /\ stdout' = stdout \o out
    /\ stderr' = stderr \o err
    /\ raised' = exception
    /\ pc' = IF exception = "none" THEN next ELSE pc

\* roots = collect_eom_roots_xncc(cfour)
XnccCollect ==
    /\ prog = "xncc" /\ pc = "collect" /\ raised = "none"
    /\ LET r == collect_eom_roots_xncc(cfour)
       IN  /\ roots' = r.roots
           /\ Ends(<<>>, r.stderr, r.raised, "add_root_ids")
    /\ UNCHANGED <<prog, cfour, args, cc_energies, irrep_no_to_name, scan,
                   amps, kept, returned, locals>>

\* add_root_ids(roots)
XnccAddRootIds ==
    /\ prog = "xncc" /\ pc = "add_root_ids" /\ raised = "none"
    /\ roots' = add_root_ids(roots)
    /\ Ends(<<>>, <<>>, "none", "add_irrep_energy_no_and_name")
    /\ UNCHANGED <<prog, cfour, args, cc_energies, irrep_no_to_name, scan,
                   amps, kept, returned, locals>>

\* add_irrep_energy_no_and_name(roots, cfour)
XnccAddIrrep ==
    /\ prog = "xncc" /\ pc = "add_irrep_energy_no_and_name" /\ raised = "none"
    /\ LET r == add_irrep_energy_no_and_name(roots, cfour)
       IN  /\ roots' = r.roots
           /\ Ends(<<>>, MOsWarnings(cfour), r.raised, "cbs")
    /\ UNCHANGED <<prog, cfour, args, cc_energies, irrep_no_to_name, scan,
                   amps, kept, returned, locals>>

\* if args.cbs is True: print_eom_roots_for_CBS_fitting(roots, cfour)
XnccCbs ==
    /\ prog = "xncc" /\ pc = "cbs" /\ raised = "none"
    /\ IF args.cbs
       THEN LET r == print_eom_roots_for_CBS_fitting(roots, cfour)
            IN  Ends(r.out, r.stderr, r.raised, "excite")
       ELSE Ends(<<>>, <<>>, "none", "excite")
    /\ UNCHANGED <<prog, cfour, args, roots, cc_energies, irrep_no_to_name,
                   scan, amps, kept, returned, locals>>

\* if args.excite is True: print_cfour_excite_section(roots)
XnccExcite ==
    /\ prog = "xncc" /\ pc = "excite" /\ raised = "none"
    /\ IF args.excite
       THEN LET r == print_cfour_excite_section(roots)
            IN  /\ roots' = r.roots
                /\ Ends(r.out, <<>>, "none", "json")
       ELSE /\ roots' = roots
            /\ Ends(<<>>, <<>>, "none", "json")
    /\ UNCHANGED <<prog, cfour, args, cc_energies, irrep_no_to_name, scan,
                   amps, kept, returned, locals>>

\* if args.json is True: print(json.dumps(roots))
XnccJson ==
    /\ prog = "xncc" /\ pc = "json" /\ raised = "none"
    /\ Ends(IF args.json THEN <<Json(roots)>> ELSE <<>>, <<>>, "none",
            "summary")
    /\ UNCHANGED <<prog, cfour, args, roots, cc_energies, irrep_no_to_name,
                   scan, amps, kept, returned, locals>>

\* if args.summary > 0: print_eom_roots_summary(roots, args.summary)
XnccSummary ==
    /\ prog = "xncc" /\ pc = "summary" /\ raised = "none"
    /\ IF args.summary > 0
       THEN LET r == print_eom_roots_summary(roots, args.summary)
            IN  /\ roots' = r.roots
                /\ Ends(r.out, <<>>, "none", "done")
       ELSE /\ roots' = roots
            /\ Ends(<<>>, <<>>, "none", "done")
    /\ UNCHANGED <<prog, cfour, args, cc_energies, irrep_no_to_name, scan,
                   amps, kept, returned, locals>>

\* cc_energies = collect_ccsd(cfour)
XveeCollectCcsd ==
    /\ prog = "xvee" /\ pc = "collect_ccsd" /\ raised = "none"
    /\ LET r == collect_ccsd(cfour)
       IN  /\ cc_energies' = r.value
           /\ Ends(<<>>, r.stderr, "none", "collect")
    /\ UNCHANGED <<prog, cfour, args, roots, irrep_no_to_name, scan, amps,
                   kept, returned, locals>>

\* roots = collect_eom_roots_xvee(cfour)
XveeCollect ==
    /\ prog = "xvee" /\ pc = "collect" /\ raised = "none"
    /\ LET r == collect_eom_roots_xvee(cfour)
       IN  /\ roots' = r.roots
           /\ Ends(<<>>, r.stderr, "none", "add_root_ids")
    /\ UNCHANGED <<prog, cfour, args, cc_energies, irrep_no_to_name, scan,
                   amps, kept, returned, locals>>

\* add_root_ids(roots)
XveeAddRootIds ==
    /\ prog = "xvee" /\ pc = "add_root_ids" /\ raised = "none"
    /\ roots' = add_root_ids(roots)
    /\ Ends(<<>>, <<>>, "none", "add_irrep_energy_no_and_name")
    /\ UNCHANGED <<prog, cfour, args, cc_energies, irrep_no_to_name, scan,
                   amps, kept, returned, locals>>

\* add_irrep_energy_no_and_name(roots, cfour)
XveeAddIrrep ==
    /\ prog = "xvee" /\ pc = "add_irrep_energy_no_and_name" /\ raised = "none"
    /\ LET r == add_irrep_energy_no_and_name(roots, cfour)
       IN  /\ roots' = r.roots
           /\ cfour' = WrittenThrough(cfour, r.roots)
           /\ Ends(<<>>, MOsWarnings(cfour), r.raised,
                   "add_excitation_energy")
    /\ UNCHANGED <<prog, args, cc_energies, irrep_no_to_name, scan, amps,
                   kept, returned, locals>>

\* add_excitation_energy(roots, cc_energies[0])
XveeAddExcitation ==
    /\ prog = "xvee" /\ pc = "add_excitation_energy" /\ raised = "none"
    /\ IF cc_energies = <<>>
       THEN /\ roots' = roots
            /\ cfour' = cfour
            /\ Ends(<<>>, <<>>, "IndexError", "cbs")
       ELSE /\ roots' = add_excitation_energy(roots, cc_energies[1])
            /\ cfour' = WrittenThrough(cfour, roots')
            /\ Ends(<<>>, <<>>, "none", "cbs")
    /\ UNCHANGED <<prog, args, cc_energies, irrep_no_to_name, scan, amps,
                   kept, returned, locals>>

\* if args.cbs is True: print("TODO: ...", file=sys.stderr)
XveeCbs ==
    /\ prog = "xvee" /\ pc = "cbs" /\ raised = "none"
    /\ Ends(<<>>,
            IF args.cbs THEN <<Msg("TODO: implement cc parsing for xvcc")>>
            ELSE <<>>,
            "none", "excite")
    /\ UNCHANGED <<prog, cfour, args, roots, cc_energies, irrep_no_to_name,
                   scan, amps, kept, returned, locals>>

\* if args.excite is True: print("TODO: ...", file=sys.stderr)
XveeExcite ==
    /\ prog = "xvee" /\ pc = "excite" /\ raised = "none"
    /\ Ends(<<>>,
            IF args.excite
            THEN <<Msg("TODO: implement parsing of converged root section of xvee")>>
            ELSE <<>>,
            "none", "json")
    /\ UNCHANGED <<prog, cfour, args, roots, cc_energies, irrep_no_to_name,
                   scan, amps, kept, returned, locals>>

\* if args.json is True: print(json.dumps(roots))
XveeJson ==
    /\ prog = "xvee" /\ pc = "json" /\ raised = "none"
    /\ Ends(IF args.json THEN <<Json(roots)>> ELSE <<>>, <<>>, "none",
            "summary")
    /\ UNCHANGED <<prog, cfour, args, roots, cc_energies, irrep_no_to_name,
                   scan, amps, kept, returned, locals>>

\* if args.summary > 0: print_eom_roots_summary(roots, args.summary)
XveeSummary ==
    /\ prog = "xvee" /\ pc = "summary" /\ raised = "none"
    /\ IF args.summary > 0
       THEN LET r == print_eom_roots_summary_xvee(roots, args.summary)
            IN  /\ roots' = r.roots
                /\ Ends(r.out, <<>>, "none", "done")
       ELSE /\ roots' = roots
            /\ Ends(<<>>, <<>>, "none", "done")
    /\ UNCHANGED <<prog, cfour, args, cc_energies, irrep_no_to_name, scan,
                   amps, kept, returned, locals>>

Next ==
    \/ XnccCollect
    \/ XnccAddRootIds
    \/ XnccAddIrrep
    \/ XnccCbs
    \/ XnccExcite
    \/ XnccJson
    \/ XnccSummary
    \/ XveeCollectCcsd
    \/ XveeCollect
    \/ XveeAddRootIds
    \/ XveeAddIrrep
    \/ XveeAddExcitation
    \/ XveeCbs
    \/ XveeExcite
    \/ XveeJson
    \/ XveeSummary

Spec == Init /\ [][Next]_vars

\* get_irrep_no_to_name reaches an MOs section that is not ok
WarnMOs ==
    /\ prog = "irrep" /\ pc = "get_irrep_no_to_name"
    /\ scan # <<>> /\ HasKey(Head(scan), "warning")
    /\ stderr' = stderr \o <<Head(scan).warning>>
    /\ scan' = Tail(scan)
    /\ UNCHANGED <<prog, cfour, args, pc, roots, cc_energies, stdout, raised,
                   irrep_no_to_name, amps, kept, returned, locals>>

\* add_irrep(mo, irrep_no_to_name)
AddIrrep ==
    /\ prog = "irrep" /\ pc = "get_irrep_no_to_name"
    /\ scan # <<>> /\ HasKey(Head(scan), "mo")
    /\ irrep_no_to_name' = add_irrep(Head(scan).mo, irrep_no_to_name)
    /\ scan' = Tail(scan)
    /\ UNCHANGED <<prog, cfour, args, pc, roots, cc_energies, stdout, stderr,
                   raised, amps, kept, returned, locals>>

\* return irrep_no_to_name
ReturnIrreps ==
    /\ prog = "irrep" /\ pc = "get_irrep_no_to_name"
    /\ scan = <<>>
    /\ pc' = "print"
    /\ UNCHANGED <<prog, cfour, args, roots, cc_energies, stdout, stderr,
                   raised, irrep_no_to_name, scan, amps, kept, returned,
                   locals>>

\* for no, name in irrep_no_to_name.items(): print(f"{no:2d}: {name}")
PrintIrreps ==
    /\ prog = "irrep" /\ pc = "print"
    /\ stdout' = stdout
                 \o Map(FirstSeen(ScanOrder(cfour), {}), LAMBDA no :
                        Text(PadLeft(IntStr(no), 2) \o <<":", " ">>
                             \o irrep_no_to_name[no]))
    /\ pc' = "done"
    /\ UNCHANGED <<prog, cfour, args, roots, cc_energies, stderr, raised,
                   irrep_no_to_name, scan, amps, kept, returned, locals>>

NextIrrep == WarnMOs \/ AddIrrep \/ ReturnIrreps \/ PrintIrreps

SpecIrrep == InitIrrep /\ [][NextIrrep]_vars

\* The filter of the emitters applied to the singles and to the doubles
FilterAmplitudes ==
    /\ prog = "filter" /\ pc = "given"
    /\ kept' = [singles |-> AboveThreshold(amps.singles, SINGLE_THRESHOLD),
                doubles |-> AboveThreshold(amps.doubles, DOUBLE_THRESHOLD)]
    /\ pc' = "filtered"
    /\ UNCHANGED <<prog, cfour, args, roots, cc_energies, stdout, stderr,
                   raised, irrep_no_to_name, scan, amps, returned, locals>>

\* The filter applied to the lists it returned
FilterAgain ==
    /\ prog = "filter" /\ pc = "filtered"
    /\ kept' = [singles |-> AboveThreshold(kept.singles, SINGLE_THRESHOLD),
                doubles |-> AboveThreshold(kept.doubles, DOUBLE_THRESHOLD)]
    /\ pc' = "filtered again"
    /\ UNCHANGED <<prog, cfour, args, roots, cc_energies, stdout, stderr,
                   raised, irrep_no_to_name, scan, amps, returned, locals>>

NextFilter == FilterAmplitudes \/ FilterAgain

SpecFilter == InitFilter /\ [][NextFilter]_vars

\* The functions that look a program up in the document.
Queries ==
    {"get_basis", "get_scf_energy", "get_cc_data", "collect_point_group",
     "collect_normal_coordinates", "collect_gradient", "get_all_geometries"}

\* A caller about to call one of the queries on a loaded document, or one
\* of the three scripts after json.load
InitQuery ==
    /\ \/ /\ prog \in Queries
          /\ cfour \in QueryDocs
          /\ args = NoArgs
          /\ pc = "call"
       \/ /\ prog = "print_normal_coordinates"
          /\ cfour \in XjodaDocs
          /\ args \in NcArgs
          /\ pc = "collect_point_group"
       \/ /\ prog = "geometry"
          /\ cfour \in XjodaDocs
          /\ args \in GeometryArgs
          /\ pc = "get_all_geometries"
       \/ /\ prog = "print_gradient"
          /\ cfour \in GradientDocs
          /\ args \in GradientArgs
          /\ pc = "collect_eom_roots_xncc"
    /\ roots = <<>>
    /\ cc_energies = <<>>
    /\ stdout = <<>>
    /\ stderr = <<>>
    /\ raised = "none"
    /\ irrep_no_to_name = EmptyDict
    /\ scan = <<>>
    /\ amps = NoAmps
    /\ kept = NoAmps
    /\ returned = None
    /\ locals = EmptyDict

\* The call returns: r is what the query does on the document.
Returns(r) ==
    /\ returned' = r.value
    /\ Ends(<<>>, r.stderr, r.raised, "returned")
    /\ UNCHANGED <<prog, cfour, args, roots, cc_energies, irrep_no_to_name,
                   scan, amps, kept, locals>>

CallGetBasis ==
    /\ prog = "get_basis" /\ pc = "call" /\ raised = "none"
    /\ Returns(get_basis(cfour))

CallGetScfEnergy ==
    /\ prog = "get_scf_energy" /\ pc = "call" /\ raised = "none"
    /\ Returns(get_scf_energy(cfour))

CallGetCcData ==
    /\ prog = "get_cc_data" /\ pc = "call" /\ raised = "none"
    /\ Returns(get_cc_data(cfour))

CallCollectPointGroup ==
    /\ prog = "collect_point_group" /\ pc = "call" /\ raised = "none"
    /\ Returns(collect_point_group(cfour))

CallCollectNormalCoordinates ==
    /\ prog = "collect_normal_coordinates" /\ pc = "call" /\ raised = "none"
    /\ Returns(collect_normal_coordinates(cfour))

CallCollectGradient ==
    /\ prog = "collect_gradient" /\ pc = "call" /\ raised = "none"
    /\ Returns(collect_gradient(cfour))

CallGetAllGeometries ==
    /\ prog = "get_all_geometries" /\ pc = "call" /\ raised = "none"
    /\ Returns(get_all_geometries(cfour))

(***************************************************************************)
(* The mains of print_normal_coordinates.py, geometry.py and               *)
(* print_gradient.py, a statement at a time.                               *)
(***************************************************************************)
\* point_group = collect_point_group(cfour)
NcCollectPointGroup ==
    /\ prog = "print_normal_coordinates" /\ pc = "collect_point_group"
    /\ raised = "none"
    /\ LET r == collect_point_group(cfour)
       IN  /\ locals' = [point_group |-> r.value[1]]
           /\ Ends(<<>>, r.stderr, "none", "collect_normal_coordinates")
    /\ UNCHANGED <<prog, cfour, args, roots, cc_energies, irrep_no_to_name,
                   scan, amps, kept, returned>>

\* normal_coordinates = collect_normal_coordinates(cfour)
NcCollectNormalCoordinates ==
    /\ prog = "print_normal_coordinates"
    /\ pc = "collect_normal_coordinates" /\ raised = "none"
    /\ LET r == collect_normal_coordinates(cfour)
       IN  /\ locals' = IF r.raised = "none"
                        THEN SetKey(locals, "normal_coordinates", r.value)
                        ELSE locals
           /\ Ends(<<>>, r.stderr, r.raised, "Mulliken")
    /\ UNCHANGED <<prog, cfour, args, roots, cc_energies, irrep_no_to_name,
                   scan, amps, kept, returned>>

\* if args.Mulliken is True: the sort and the lower case, in place
NcMulliken ==
    /\ prog = "print_normal_coordinates" /\ pc = "Mulliken"
    /\ raised = "none"
    /\ IF ~args.Mulliken
       THEN /\ UNCHANGED <<cfour, locals>>
            /\ Ends(<<>>, <<>>, "none", "json")
       ELSE IF locals.normal_coordinates = None
       THEN /\ UNCHANGED <<cfour, locals>>
            /\ Ends(<<>>, <<>>, "AttributeError", "json")
       ELSE LET modes == Mulliken(locals.point_group,
                                  locals.normal_coordinates[1])
            IN  /\ locals' = [locals EXCEPT !.normal_coordinates = Some(modes)]
                /\ cfour' = IF ListOfDocument(cfour)
                            THEN WithNormalCoordinates(cfour, modes)
                            ELSE cfour
                /\ Ends(<<>>, <<>>, "none", "json")
    /\ UNCHANGED <<prog, args, roots, cc_energies, irrep_no_to_name, scan,
                   amps, kept, returned>>

\* if args.json is True: print(json.dumps(xsim_ncs))
NcJson ==
    /\ prog = "print_normal_coordinates" /\ pc = "json" /\ raised = "none"
    /\ IF ~args.json
       THEN Ends(<<>>, <<>>, "none", "verbose")
       ELSE IF locals.normal_coordinates = None
       THEN Ends(<<>>, <<>>, "TypeError", "verbose")
       ELSE Ends(<<Json(xsim_input_normal_coordinates(
                            locals.normal_coordinates[1]))>>,
                 <<>>, "none", "verbose")
    /\ UNCHANGED <<prog, cfour, args, roots, cc_energies, irrep_no_to_name,
                   scan, amps, kept, returned, locals>>

\* if args.verbose > 0: verbose_print(args, point_group, normal_coordinates)
NcVerbose ==
    /\ prog = "print_normal_coordinates" /\ pc = "verbose" /\ raised = "none"
    /\ IF args.verbose > 0
       THEN LET r == verbose_print(args, locals.point_group,
                                   locals.normal_coordinates)
            IN  Ends(r.out, <<>>, r.raised, "xyz")
       ELSE Ends(<<>>, <<>>, "none", "xyz")
    /\ UNCHANGED <<prog, cfour, args, roots, cc_energies, irrep_no_to_name,
                   scan, amps, kept, returned, locals>>

\* if args.xyz is True: the first geometry, converted in place, and the xyz
\* listing of the modes
NcXyz ==
    /\ prog = "print_normal_coordinates" /\ pc = "xyz" /\ raised = "none"
    /\ IF ~args.xyz
       THEN /\ UNCHANGED <<cfour, locals>>
            /\ Ends(<<>>, <<>>, "none", "done")
       ELSE LET r == get_all_geometries(cfour)
            IN  IF r.raised # "none"
                THEN /\ UNCHANGED <<cfour, locals>>
                     /\ Ends(<<>>, r.stderr, r.raised, "done")
                ELSE IF r.value[1] = <<>>
                THEN /\ UNCHANGED <<cfour, locals>>
                     /\ Ends(<<>>, r.stderr, "IndexError", "done")
                ELSE LET geo_au == r.value[1][1]["geometry a.u."]
                         geo == trim_non_atoms(distance_AU_to_A(geo_au))
                     IN  /\ cfour' = ConvertedAt(cfour, QcompPlaces(cfour)[1],
                                                 FALSE)
                         /\ locals' = SetKey(locals, "geo", geo)
                         /\ IF locals.normal_coordinates = None
                            THEN Ends(<<>>, r.stderr, "TypeError", "done")
                            ELSE Ends(
                                XyzModes(args, geo,
                                         locals.normal_coordinates[1]),
                                r.stderr
                                \o XyzMismatches(geo,
                                       locals.normal_coordinates[1]),
                                "none", "done")
    /\ UNCHANGED <<prog, args, roots, cc_energies, irrep_no_to_name, scan,
                   amps, kept, returned>>

\* geometries = get_all_geometries(cfour)
GeometryCollect ==
    /\ prog = "geometry" /\ pc = "get_all_geometries" /\ raised = "none"
    /\ LET r == get_all_geometries(cfour)
       IN  /\ locals' = IF r.raised = "none"
                        THEN [geometries |-> r.value[1]]
                        ELSE locals
           /\ Ends(<<>>, r.stderr, r.raised, "empty")
    /\ UNCHANGED <<prog, cfour, args, roots, cc_energies, irrep_no_to_name,
                   scan, amps, kept, returned>>

\* if len(geometries) == 0: the warning and sys.exit(1)
GeometryExit ==
    /\ prog = "geometry" /\ pc = "empty" /\ raised = "none"
    /\ IF Len(locals.geometries) = 0
       THEN Ends(<<>>,
                 <<Msg("Warning: no geometries detected in the output file.")>>,
                 "SystemExit", "xyz")
       ELSE Ends(<<>>, <<>>, "none", "xyz")
    /\ UNCHANGED <<prog, cfour, args, roots, cc_energies, irrep_no_to_name,
                   scan, amps, kept, returned, locals>>

\* if args.xyz is True: trim_dummy_atoms and print_xyz_geometry of each
\* geometry; the atoms listed are converted in place
GeometryXyz ==
    /\ prog = "geometry" /\ pc = "xyz" /\ raised = "none"
    /\ IF args.xyz
       THEN /\ cfour' = ConvertedAll(cfour, QcompPlaces(cfour), args.no_dummy)
            /\ locals' = [locals EXCEPT !.geometries =
                             Map(@, LAMBDA geo :
                                 PrintedGeometry(geo, args.no_dummy))]
            /\ Ends(XyzListing(locals.geometries, args.no_dummy), <<>>,
                    "none", "done")
       ELSE /\ UNCHANGED <<cfour, locals>>
            /\ Ends(<<>>, <<>>, "none", "done")
    /\ UNCHANGED <<prog, args, roots, cc_energies, irrep_no_to_name, scan,
                   amps, kept, returned>>

\* xncc_roots = collect_eom_roots_xncc(cfour)
GradientCollectXncc ==
    /\ prog = "print_gradient" /\ pc = "collect_eom_roots_xncc"
    /\ raised = "none"
    /\ LET r == collect_eom_roots_xncc(cfour)
       IN  /\ locals' = IF r.raised = "none" THEN [xncc_roots |-> r.roots]
                        ELSE locals
           /\ Ends(<<>>, r.stderr, r.raised, "collect_eom_roots_xvee")
    /\ UNCHANGED <<prog, cfour, args, roots, cc_energies, irrep_no_to_name,
                   scan, amps, kept, returned>>

\* xvee_roots = collect_eom_roots_xvee(cfour)
GradientCollectXvee ==
    /\ prog = "print_gradient" /\ pc = "collect_eom_roots_xvee"
    /\ raised = "none"
    /\ LET r == collect_eom_roots_xvee(cfour)
       IN  /\ locals' = SetKey(locals, "xvee_roots", r.roots)
           /\ Ends(<<>>, r.stderr, "none", "roots")
    /\ UNCHANGED <<prog, cfour, args, roots, cc_energies, irrep_no_to_name,
                   scan, amps, kept, returned>>

\* The warning when both lists are empty; roots = xncc_roots + xvee_roots
GradientRoots ==
    /\ prog = "print_gradient" /\ pc = "roots" /\ raised = "none"
    /\ roots' = locals.xncc_roots \o locals.xvee_roots
    /\ Ends(<<>>,
            IF Len(locals.xncc_roots) = 0 /\ Len(locals.xvee_roots) = 0
            THEN <<Msg("Warning: No EOM roots detected in the gradient calculation")>>
            ELSE <<>>,
            "none", "collect_gradient")
    /\ UNCHANGED <<prog, cfour, args, cc_energies, irrep_no_to_name, scan,
                   amps, kept, returned, locals>>

\* gradient = collect_gradient(cfour) and outpack
GradientCollect ==
    /\ prog = "print_gradient" /\ pc = "collect_gradient" /\ raised = "none"
    /\ LET r == collect_gradient(cfour)
       IN  /\ locals' =
                  IF r.raised # "none" THEN locals
                  ELSE SetKey(SetKey(locals, "gradient", r.value[1]),
                              "outpack",
                              [gradient |-> r.value[1]]
                              @@ ("EOM states" :> roots))
           /\ Ends(<<>>, r.stderr, r.raised, "json")
    /\ UNCHANGED <<prog, cfour, args, roots, cc_energies, irrep_no_to_name,
                   scan, amps, kept, returned>>

\* if args.json is True: print(json.dumps(outpack))
GradientJson ==
    /\ prog = "print_gradient" /\ pc = "json" /\ raised = "none"
    /\ Ends(IF args.json THEN <<Json(locals.outpack)>> ELSE <<>>, <<>>,
            "none", "verbose")
    /\ UNCHANGED <<prog, cfour, args, roots, cc_energies, irrep_no_to_name,
                   scan, amps, kept, returned, locals>>

\* if args.verbose > 0: the states and the components, a print of each
GradientVerbose ==
    /\ prog = "print_gradient" /\ pc = "verbose" /\ raised = "none"
    /\ Ends(IF args.verbose > 0
            THEN <<Msg("EOM root(s) related to the gradient:")>>
                 \o Map(locals.outpack["EOM states"], Repr)
                 \o <<Msg("The normal coordinate gradient components:")>>
                 \o Map(locals.outpack.gradient, Repr)
            ELSE <<>>,
            <<>>, "none", "done")
    /\ UNCHANGED <<prog, cfour, args, roots, cc_energies, irrep_no_to_name,
                   scan, amps, kept, returned, locals>>

NextQuery ==
    \/ CallGetBasis
    \/ CallGetScfEnergy
    \/ CallGetCcData
    \/ CallCollectPointGroup
    \/ CallCollectNormalCoordinates
    \/ CallCollectGradient
    \/ CallGetAllGeometries
    \/ NcCollectPointGroup
    \/ NcCollectNormalCoordinates
    \/ NcMulliken
    \/ NcJson
    \/ NcVerbose
    \/ NcXyz
    \/ GeometryCollect
    \/ GeometryExit
    \/ GeometryXyz
    \/ GradientCollectXncc
    \/ GradientCollectXvee
    \/ GradientRoots
    \/ GradientCollect
    \/ GradientJson
    \/ GradientVerbose

SpecQuery == InitQuery /\ [][NextQuery]_vars

(***************************************************************************)
(* Properties.                                                             *)
(***************************************************************************)
\* add_root_ids has returned.
AfterRootIds ==
    /\ prog \in {"xncc", "xvee"}
    /\ pc \in {"add_irrep_energy_no_and_name", "add_excitation_energy",
               "cbs", "excite", "json", "summary", "done"}

\* add_irrep_energy_no_and_name has returned.
AfterIrrep ==
    /\ prog \in {"xncc", "xvee"}
    /\ pc \in {"add_excitation_energy", "cbs", "excite", "json", "summary",
               "done"}

\* An emitter that sorts the list has run.
Resorted ==
    /\ pc = "done"
    /\ args.summary > 0
    /\ prog = "xncc" => args.excite

\* The number of roots of the irrep of roots[i] that precede roots[i].
SameIrrepBefore(i) ==
    Cardinality({k \in 1..(i - 1) : roots[k].irrep["#"] = roots[i].irrep["#"]})

\* C1 as stated: after add_root_ids and add_irrep_energy_no_and_name, in
\* both pipelines, the j-th (0-based) root of an irrep in ascending order of
\* total energy has irrep 'energy #' = j.
C1_IrrepEnergyNoFromZero ==
    AfterIrrep =>
        \A i \in 1..Len(roots) :
            roots[i].irrep["energy #"] = SameIrrepBefore(i)

\* C1 amended: after add_root_ids and add_irrep_energy_no_and_name, in both
\* pipelines, the j-th (0-based) root of an irrep in ascending order of
\* total energy has irrep 'energy #' = j + 1, whatever its global rank.
C1_IrrepEnergyNoFromOne ==
    AfterIrrep =>
        \A i \in 1..Len(roots) :
            /\ roots[i].irrep["energy #"] = SameIrrepBefore(i) + 1
            /\ \A k \in 1..(i - 1) : TotalAu(roots[k]) <= TotalAu(roots[i])

\* A root that is the second of its irrep and the third of all roots.
C1_Witness ==
    /\ AfterIrrep
    /\ \E i \in 1..Len(roots) :
        /\ roots[i].irrep["energy #"] = 2
        /\ roots[i].ids["energy #"] = 2

\* The number of roots the extractor returned for the document.
Extracted ==
    IF prog = "xncc"
    THEN Len(collect_eom_roots_xncc(cfour).roots)
    ELSE Len(SelectSeq(EomSolutions(cfour), IsOk))

\* C2: once add_root_ids has run on the N extracted roots, the values
\* ids['energy #'] are exactly 0..N-1, the list is in ascending order of
\* total energy and each root's ids['energy #'] is its position; this stays
\* so after irrep enrichment and after the emitters have sorted the list.
C2_EnergyIdsArePositions ==
    AfterRootIds =>
        /\ Len(roots) = Extracted
        /\ {roots[i].ids["energy #"] : i \in 1..Len(roots)}
             = 0..(Len(roots) - 1)
        /\ \A i \in 1..Len(roots) : roots[i].ids["energy #"] = i - 1
        /\ \A i, j \in 1..Len(roots) :
             i < j => TotalAu(roots[i]) <= TotalAu(roots[j])

\* Three roots of which the last extracted has the lowest energy, after the
\* emitters have sorted the list again.
C2_Witness ==
    /\ Resorted
    /\ Len(roots) = 3
    /\ roots[1].ids["#"] = 2
    /\ TotalAu(roots[1]) < TotalAu(roots[2])

\* C3: of two roots of equal total energy the one with the smaller
\* ids['#'] precedes the other after add_root_ids, after irrep enrichment
\* and after the emitters' sort; it has the smaller global energy # and, if
\* the irreps are equal, the smaller irrep energy #.
C3_SortIsStable ==
    AfterRootIds =>
        \A i, j \in 1..Len(roots) :
            (TotalAu(roots[i]) = TotalAu(roots[j])
                /\ roots[i].ids["#"] < roots[j].ids["#"]) =>
                /\ i < j
                /\ roots[i].ids["energy #"] < roots[j].ids["energy #"]
                /\ (AfterIrrep /\ roots[i].irrep["#"] = roots[j].irrep["#"]) =>
                      roots[i].irrep["energy #"] < roots[j].irrep["energy #"]

\* Two roots of equal energy and equal irrep, with a root of lower energy
\* extracted after them, after the emitters have sorted the list again.
C3_Witness ==
    /\ Resorted
    /\ \E i, j, k \in 1..Len(roots) :
        /\ TotalAu(roots[i]) = TotalAu(roots[j])
        /\ roots[i].irrep["#"] = roots[j].irrep["#"]
        /\ roots[i].ids["#"] < roots[j].ids["#"]
        /\ roots[j].ids["#"] < roots[k].ids["#"]
        /\ TotalAu(roots[k]) < TotalAu(roots[i])

HasScfProgram ==
    \E p \in 1..Len(cfour) : cfour[p].name \in {"xvscf", "xdqcscf"}

\* C4: without a program named xvscf or xdqcscf the index is empty and the
\* enrichment of a non-empty root list halts with a KeyError; when the
\* enrichment halts, it halts at the first root (in the sorted order) whose
\* irrep number is not in the index, and nothing has been written to
\* stdout; when it completes, every root's irrep name is index[irrep #].
C4_UnresolvedIrrepHalts ==
    LET index == get_irrep_no_to_name(cfour)
        halted == pc = "add_irrep_energy_no_and_name" /\ raised = "KeyError"
    IN  /\ ~HasScfProgram => index = EmptyDict
        /\ (~HasScfProgram /\ (AfterIrrep \/ halted) /\ prog \in {"xncc", "xvee"}
              /\ Extracted > 0) => halted
        /\ halted =>
              /\ stdout = <<>>
              /\ \E i \in 1..Len(roots) :
                    /\ roots[i].irrep["#"] \notin DOMAIN index
                    /\ \A k \in 1..(i - 1) :
                          /\ roots[k].irrep["#"] \in DOMAIN index
                          /\ HasKey(roots[k].irrep, "name")
                    /\ \A k \in i..Len(roots) :
                          ~HasKey(roots[k].irrep, "name")
        /\ AfterIrrep =>
              \A i \in 1..Len(roots) :
                  /\ roots[i].irrep["#"] \in DOMAIN index
                  /\ roots[i].irrep.name = index[roots[i].irrep["#"]]

\* A document without SCF program whose roots stopped the enrichment.
C4_Witness ==
    /\ ~HasScfProgram
    /\ pc = "add_irrep_energy_no_and_name" /\ raised = "KeyError"
    /\ Len(roots) >= 2
    /\ args.json

\* The places of the orbital entries get_irrep_no_to_name reads: program,
\* section, occupied (0) or virtual (1) list, place in the list.
EntryPlaces ==
    UNION {UNION {
        {[p |-> p, s |-> s, v |-> 0, k |-> k] :
            k \in 1..Len(cfour[p].sections[s].data.occupied)}
        \cup {[p |-> p, s |-> s, v |-> 1, k |-> k] :
                k \in 1..Len(cfour[p].sections[s].data.virtual)} :
        s \in {x \in 1..Len(cfour[p].sections) :
                  cfour[p].sections[x].name = "MOs"}} :
        p \in {x \in 1..Len(cfour) :
                  cfour[x].name \in {"xvscf", "xdqcscf"}}}

EntryAt(e) ==
    IF e.v = 0 THEN cfour[e.p].sections[e.s].data.occupied[e.k]
    ELSE cfour[e.p].sections[e.s].data.virtual[e.k]

\* Place a is read before place b.
ReadBefore(a, b) ==
    \/ a.p < b.p
    \/ a.p = b.p /\ a.s < b.s
    \/ a.p = b.p /\ a.s = b.s /\ a.v < b.v
    \/ a.p = b.p /\ a.s = b.s /\ a.v = b.v /\ a.k < b.k

\* C5: the name the index maps a symmetry index to is the name of the first
\* orbital entry with that index (programs in document order, MOs sections
\* in order, occupied before virtual entries), and once an index has a name
\* no later step changes it.
C5_FirstNameWins ==
    /\ [](pc \in {"print", "done"} =>
            /\ DOMAIN irrep_no_to_name
                 = {EntryAt(e).compsymm["#"] : e \in EntryPlaces}
            /\ \A e \in EntryPlaces :
                 (\A b \in EntryPlaces :
                     ReadBefore(b, e) =>
                        EntryAt(b).compsymm["#"] # EntryAt(e).compsymm["#"])
                 => irrep_no_to_name[EntryAt(e).compsymm["#"]]
                      = EntryAt(e).compsymm.name)
    /\ [][\A no \in DOMAIN irrep_no_to_name :
            /\ no \in DOMAIN irrep_no_to_name'
            /\ irrep_no_to_name'[no] = irrep_no_to_name[no]]_vars

\* An index that was first listed with a blank name and later, in another
\* program, with a name.
C5_Witness ==
    /\ pc = "done"
    /\ \E a, b \in EntryPlaces :
        /\ a.p < b.p
        /\ EntryAt(a).compsymm["#"] = 1 /\ EntryAt(b).compsymm["#"] = 1
        /\ EntryAt(a).compsymm.name = Blank /\ EntryAt(b).compsymm.name = A1
        /\ \A c \in EntryPlaces : ~ReadBefore(c, a)
    /\ irrep_no_to_name[1] = Blank

\* The 'eom solution' sections of the first program named xvee, read from
\* the document.
ScannedSolutions ==
    LET programs == {p \in 1..Len(cfour) : cfour[p].name = "xvee"}
    IN  IF programs = {} THEN <<>>
        ELSE LET first == CHOOSE p \in programs : \A q \in programs : p <= q
             IN  SelectSeq(cfour[first].sections,
                           LAMBDA x : x.name = "eom solution")

\* The diagnostics on stderr that name an 'eom solution' section.
SolutionDiagnostics ==
    SelectSeq(stderr, LAMBDA line :
        HasKey(line, "name") /\ line.name = "eom solution")

\* C6: the list collect_eom_roots_xvee returns holds exactly the ok 'eom
\* solution' entries of the scanned xvee program, in document order, none
\* built from an entry that is not ok, and each entry that is not ok has
\* exactly one diagnostic with its start and end lines (0 and -1 when it
\* has none).
C6_OnlyOkSolutions ==
    (prog = "xvee" /\ pc = "add_root_ids") =>
        LET ok == SelectSeq(ScannedSolutions,
                            LAMBDA x : x.metadata.ok = TRUE)
            bad == SelectSeq(ScannedSolutions,
                             LAMBDA x : x.metadata.ok = FALSE)
        IN  /\ Len(roots) = Len(ok)
            /\ \A i \in 1..Len(roots) :
                 /\ roots[i].model = ok[i].data.model
                 /\ roots[i].irrep = ok[i].data.irrep
                 /\ roots[i].energy = ok[i].data.energy
            /\ Len(SolutionDiagnostics) = Len(bad)
            /\ \A i \in 1..Len(bad) :
                 /\ SolutionDiagnostics[i].start
                      = (IF "start" \in DOMAIN bad[i] THEN bad[i].start ELSE 0)
                 /\ SolutionDiagnostics[i].end
                      = (IF "end" \in DOMAIN bad[i] THEN bad[i].end ELSE -1)

\* A not-ok solution without start and end between the extraction of an ok
\* solution and of nothing more.
C6_Witness ==
    /\ prog = "xvee" /\ pc = "add_root_ids"
    /\ Len(roots) = 1
    /\ Len(ScannedSolutions) = 2
    /\ ScannedSolutions[1].metadata.ok = FALSE
    /\ \E i \in 1..Len(stderr) :
        /\ HasKey(stderr[i], "start")
        /\ stderr[i].start = 0 /\ stderr[i].end = -1

\* The 'eom root' containers of the first xncc program that have both a
\* 'converged root' and an 'EOM energy' child, read from the document.
FullyFormed ==
    LET programs == {p \in 1..Len(cfour) : cfour[p].name = "xncc"}
    IN  IF programs = {} THEN <<>>
        ELSE LET first == CHOOSE p \in programs : \A q \in programs : p <= q
             IN  SelectSeq(EomRootContainers(cfour[first]), LAMBDA c :
                    /\ \E x \in 1..Len(c.eom_root.sections) :
                          c.eom_root.sections[x].name = "converged root"
                    /\ \E x \in 1..Len(c.eom_root.sections) :
                          c.eom_root.sections[x].name = "EOM energy")

\* C7: collect_eom_roots_xncc emits a record for an 'eom root' container if
\* and only if the container has both a 'converged root' and an 'EOM energy'
\* child; a container that lacks one is skipped and nothing is raised.
C7_PartialContainersSkipped ==
    prog = "xncc" =>
        /\ ~(pc = "collect" /\ raised # "none")
        /\ pc = "add_root_ids" =>
              /\ Len(roots) = Len(FullyFormed)
              /\ \A i \in 1..Len(roots) :
                    /\ roots[i].energy
                         = Named(FullyFormed[i].eom_root.sections,
                                 "EOM energy")[1].data
                    /\ roots[i]["converged root"]
                         = Named(FullyFormed[i].eom_root.sections,
                                 "converged root")[1].data

\* The places of the entries of a list whose amplitude is above 0.1 in
\* absolute value.
PlacesAbove(entries) ==
    {i \in 1..Len(entries) :
        entries[i].amplitude > 1000 \/ entries[i].amplitude < -1000}

\* filtered holds the entries of given at the places of PlacesAbove, in the
\* order of the places.
KeepsExactlyAbove(given, filtered) ==
    /\ Len(filtered) = Cardinality(PlacesAbove(given))
    /\ \A i \in PlacesAbove(given) :
         filtered[Cardinality({k \in PlacesAbove(given) : k <= i})] = given[i]

\* C8: the threshold filter keeps exactly the entries with |amplitude|
\* strictly above 0.1 (an entry at 0.1 or -0.1 is dropped), for singles and
\* doubles alike, and in the order of the list given.
C8_FilterKeepsAboveThreshold ==
    (prog = "filter" /\ pc = "filtered") =>
        /\ KeepsExactlyAbove(amps.singles, kept.singles)
        /\ KeepsExactlyAbove(amps.doubles, kept.doubles)

\* Singles with an entry at 0.1, doubles with an entry at 0.1, and entries
\* kept on both sides of a dropped one.
C8_Witness ==
    /\ prog = "filter" /\ pc = "filtered"
    /\ \E i \in 1..Len(amps.singles) : amps.singles[i].amplitude = -1000
    /\ \E i \in 1..Len(amps.doubles) : amps.doubles[i].amplitude = 1000
    /\ Len(kept.singles) = 1 /\ Len(amps.singles) = 2
    /\ Len(kept.doubles) = 1

\* C9: the filter applied to a list it returned gives that list back.
C9_FilterIdempotent ==
    [][(prog = "filter" /\ pc = "filtered") => kept' = kept]_vars

\* The filter was applied again to lists it had shortened: to no single of
\* two, to one double of two.
C9_Witness ==
    /\ prog = "filter" /\ pc = "filtered again"
    /\ Len(amps.singles) = 2 /\ kept.singles = <<>>
    /\ Len(amps.doubles) = 2 /\ Len(kept.doubles) = 1

\* int() of the digits of a natural number
RECURSIVE ParseNatFrom(_, _)
ParseNatFrom(value, chars) ==
    IF chars = <<>> THEN value
    ELSE ParseNatFrom(
            10 * value + (CHOOSE d \in 0..9 : Digits[d + 1] = Head(chars)),
            Tail(chars))

\* int() of a token
ParseInt(chars) ==
    IF Head(chars) = "-" THEN -ParseNatFrom(0, Tail(chars))
    ELSE ParseNatFrom(0, chars)

\* float() of a token with three decimals; the result counts 1e-3
ParseDecimal3(chars) ==
    LET digits == IF Head(chars) = "-" THEN Tail(chars) ELSE chars
        point == CHOOSE i \in 1..Len(digits) : digits[i] = "."
        value == 1000 * ParseNatFrom(0, SubSeq(digits, 1, point - 1))
                 + ParseNatFrom(0, SubSeq(digits, point + 1, point + 3))
    IN  IF Head(chars) = "-" THEN -value ELSE value

\* The triple read from a line '1 <occ> 0 <virt> 0 <amplitude>'
ParseSingle(line) ==
    LET tokens == Split(line.text)
    IN  [I |-> ParseInt(tokens[2]), A |-> ParseInt(tokens[4]),
         amplitude |-> ParseDecimal3(tokens[6])]

\* The triples of n roots read from the lines that follow the number of
\* roots: a count line, then that many lines of singles, for each root.
RECURSIVE ParseRoots(_, _)
ParseRoots(lines, n) ==
    IF n = 0 THEN <<>>
    ELSE LET count == ParseInt(lines[1].text)
         IN  <<Map(SubSeq(lines, 2, count + 1), ParseSingle)>>
             \o ParseRoots(SubSeq(lines, count + 2, Len(lines)), n - 1)

\* The triple of a single with its amplitude rounded to 3 decimals (1e-3).
RoundedTriple(single) ==
    [I |-> single.I, A |-> single.A,
     amplitude |-> IF single.amplitude < 0 THEN -Round3(-single.amplitude)
                   ELSE Round3(single.amplitude)]

\* C10: the lines '1 <occ> 0 <virt> 0 <amplitude>' that
\* print_cfour_excite_section wrote, parsed and grouped by the count lines,
\* give for each root, in order, the (occupied, virtual, amplitude rounded
\* to 3 decimals) triples of the root's singles with |amplitude| > 0.1.
C10_ExciteRoundTrip ==
    (prog = "xncc" /\ args.excite /\ pc \in {"json", "summary", "done"}) =>
        LET first == IF args.cbs THEN 2 ELSE 1
        IN  /\ stdout[first] = Msg("%excite*")
            /\ ParseRoots(SubSeq(stdout, first + 2, Len(stdout)),
                          ParseInt(stdout[first + 1].text))
                 = [i \in 1..Len(roots) |->
                      Map(SelectSeq(roots[i]["converged root"].singles,
                                    LAMBDA x : x.amplitude > 1000
                                               \/ x.amplitude < -1000),
                          RoundedTriple)]

\* An excite section with a root of two thresholded singles, one negative,
\* one that rounds up at the 4th decimal, written after the CBS payload.
C10_Witness ==
    /\ prog = "xncc" /\ args.excite /\ args.cbs /\ pc = "json"
    /\ \E i \in 1..Len(roots) :
        LET singles == roots[i]["converged root"].singles
        IN  /\ Len(singles) = 2
            /\ singles[1].amplitude = -1206
            /\ singles[2].amplitude = 1005

\* add_excitation_energy has returned.
AfterExcitation ==
    /\ prog = "xvee"
    /\ pc \in {"cbs", "excite", "json", "summary", "done"}

\* C11: in the xvee pipeline, once add_excitation_energy has returned, every
\* root's excitation energy in au is its total energy minus the first
\* collected reference energy (the same for every root) and its excitation
\* energy in eV is that value times 27.211386245988 (its first four
\* decimals, compared with the products by 27.2113 and 27.2114);
\* add_excitation_energy leaves the list's length, order and total
\* energies as they were.
C11_ExcitationEnergy ==
    /\ [](AfterExcitation =>
            /\ cc_energies # <<>>
            /\ \A i \in 1..Len(roots) :
                LET excitation == roots[i].energy.excitation
                IN  /\ excitation.au = TotalAu(roots[i]) - cc_energies[1]
                    /\ (excitation.eV < 0) = (excitation.au < 0)
                    /\ 1000 * Abs(excitation.eV)
                          <= 272114 * Abs(excitation.au)
                    /\ 1000 * (Abs(excitation.eV) + 1)
                          > 272113 * Abs(excitation.au))
    /\ [][(prog = "xvee" /\ pc = "add_excitation_energy") =>
            /\ Len(roots') = Len(roots)
            /\ \A i \in 1..Len(roots) :
                  roots'[i].energy.total = roots[i].energy.total]_vars

\* Two roots of different total energy enriched with the first of two
\* different reference energies.
C11_Witness ==
    /\ AfterExcitation
    /\ Len(cc_energies) = 2
    /\ cc_energies[1] # cc_energies[2]
    /\ Len(roots) = 2
    /\ TotalAu(roots[1]) # TotalAu(roots[2])
    /\ roots[1].energy.excitation.au = 160
    /\ roots[1].energy.excitation.eV = 43538

\* The position of the program a query reads: the first of the name it
\* looks for (the last for the normal coordinates and the gradient), 0 when
\* the document has none.
RequestedProgram ==
    LET wanted == IF prog = "get_scf_energy" THEN {"xvscf", "xdqcscf"}
                  ELSE IF prog = "get_cc_data" THEN {"xncc"}
                  ELSE {"xjoda"}
        places == {p \in 1..Len(cfour) : cfour[p].name \in wanted}
    IN  IF places = {} THEN 0
        ELSE IF prog \in {"collect_normal_coordinates", "collect_gradient"}
        THEN CHOOSE p \in places : \A q \in places : q <= p
        ELSE CHOOSE p \in places : \A q \in places : p <= q

\* The requested program has the block the query reads (get_all_geometries
\* reads every xjoda program).
HasRequiredBlock ==
    LET sections == cfour[RequestedProgram].sections
        Has(name) == \E i \in 1..Len(sections) : sections[i].name = name
    IN  CASE prog = "get_basis" -> Has("control parameters")
          [] prog = "get_scf_energy" -> TRUE
          [] prog = "get_cc_data" -> Has("cc")
          [] prog = "collect_point_group" -> Has("point group")
          [] prog = "collect_normal_coordinates" -> Has("normal coordinates")
          [] prog = "collect_gradient" -> Has("normal coordinate gradient")
          [] prog = "get_all_geometries" ->
                \E p \in 1..Len(cfour) :
                    /\ cfour[p].name = "xjoda"
                    /\ \E i \in 1..Len(cfour[p].sections) :
                          cfour[p].sections[i].name = "qcomp"

\* The value returned is None, the empty string, the empty dict or the
\* empty list.
ReturnedAbsence ==
    \/ Len(returned) = 0
    \/ /\ prog = "collect_point_group"
       /\ returned[1] = <<>>
    \/ /\ prog \in {"get_basis", "get_cc_data", "collect_normal_coordinates",
                     "collect_gradient", "get_all_geometries"}
       /\ DOMAIN returned[1] = {}

\* C12: on every document each query returns and does not raise; when the
\* document has no program of the name the query looks for, it returns
\* None, the empty string, the empty dict or the empty list; when that
\* program lacks the block the query reads (also when it has no sections),
\* it returns such a value and prints a diagnostic.
C12_AbsenceNeverRaises ==
    prog \in Queries =>
        /\ raised = "none"
        /\ (pc = "returned" /\ RequestedProgram = 0) => ReturnedAbsence
        /\ (pc = "returned" /\ RequestedProgram # 0 /\ ~HasRequiredBlock) =>
              ReturnedAbsence /\ stderr # <<>>

\* C13: a run of the xncc or of the xvee root pipeline halts only in
\* add_irrep_energy_no_and_name, with the KeyError of an irrep number that
\* is not in the irrep index; no other missing or not-ok container (no xncc
\* or xvee program, no reference energy, no cc section for the CBS payload,
\* no roots) raises.
C13_OnlyUnresolvedIrrepHalts ==
    (prog \in {"xncc", "xvee"} /\ raised # "none") =>
        /\ raised = "KeyError"
        /\ pc = "add_irrep_energy_no_and_name"
        /\ \E i \in 1..Len(roots) :
              roots[i].irrep["#"] \notin DOMAIN get_irrep_no_to_name(cfour)

\* C14: no step of the xncc or of the xvee root pipeline (extraction,
\* add_root_ids, add_irrep_energy_no_and_name, add_excitation_energy, the
\* emitters) changes the loaded document: every program, section and data
\* member keeps the value it had after json.load.
C14_DocumentNeverMutated ==
    [][(prog \in {"xncc", "xvee"}) => (cfour' = cfour)]_vars

\* The fixed lines of the excite section and of the summary.
FormatLabels == {"%excite*", "Singles:", "Doubles:", "\n"}

\* A line of one of the data formats: a JSON value, a formatted line, or a
\* fixed line of the excite section or of the summary.
IsDataLine(line) ==
    \/ HasKey(line, "json")
    \/ HasKey(line, "text")
    \/ HasKey(line, "msg") /\ line.msg \in FormatLabels

\* C15: in every run of either root pipeline, whatever the flags, every
\* line written to stdout is a line of a selected data format (CBS payload,
\* excite section, JSON snapshot, summary), nothing is written to stdout
\* when no format is selected, and the warnings, infos and not-implemented
\* notices are written to stderr only.
C15_DiagnosticsOnlyOnStderr ==
    prog \in {"xncc", "xvee"} =>
        /\ \A i \in 1..Len(stdout) : IsDataLine(stdout[i])
        /\ (~args.cbs /\ ~args.excite /\ ~args.json /\ args.summary = 0) =>
              stdout = <<>>
        /\ \A i \in 1..Len(stderr) : ~IsDataLine(stderr[i])

\* The CBS payload has been printed: it is the first line of stdout.
CbsPrinted ==
    /\ prog = "xncc"
    /\ args.cbs
    /\ pc \in {"excite", "json", "summary", "done"}

\* The 'control parameters' sections of the first xjoda program, the SCF
\* programs and the cc sections of the first xncc program, read from the
\* document.
ControlParameters ==
    IF Named(cfour, "xjoda") = <<>> THEN <<>>
    ELSE Named(Named(cfour, "xjoda")[1].sections, "control parameters")

ScfListed == SelectSeq(cfour, IsScf)

CcListed ==
    IF Named(cfour, "xncc") = <<>> THEN <<>>
    ELSE Named(Named(cfour, "xncc")[1].sections, "cc")

\* token is the first whitespace-delimited token of chars.
IsFirstToken(token, chars) ==
    /\ token # <<>>
    /\ \A i \in 1..Len(token) : token[i] \notin Whitespace
    /\ \E lead \in 0..Len(chars) :
        /\ \A i \in 1..lead : chars[i] \in Whitespace
        /\ lead + Len(token) <= Len(chars)
        /\ SubSeq(chars, lead + 1, lead + Len(token)) = token
        /\ lead + Len(token) < Len(chars) =>
              chars[lead + Len(token) + 1] \in Whitespace

\* C16: the CBS payload print_eom_roots_for_CBS_fitting prints has the
\* keys basis, scf, calclevel, cc_energy and EOM; basis is the first
\* whitespace-delimited token of the BASIS control parameter, scf the energy
\* of the SCF program, calclevel and cc_energy the level and total energy
\* of the cc section (basis and scf are None, the cc keys absent, when the
\* document has no such program); EOM has one entry per root, in the order
\* of the root list, with exactly the root's irrep name, irrep energy #,
\* total energy and model; the call leaves the root list as it was.
C16_CbsPayload ==
    /\ [](CbsPrinted =>
            LET payload == stdout[1].json
            IN  /\ IF ControlParameters = <<>> THEN payload.basis = None
                   ELSE IsFirstToken(payload.basis[1],
                                     ControlParameters[1].data.BASIS.value)
                /\ IF ScfListed = <<>> THEN payload.scf = None
                   ELSE payload.scf = Some(ScfListed[1].data.energy.au)
                /\ IF CcListed = <<>>
                   THEN DOMAIN payload = {"basis", "scf", "EOM"}
                   ELSE /\ DOMAIN payload
                            = {"basis", "scf", "calclevel", "cc_energy", "EOM"}
                        /\ payload.calclevel = CcListed[1].data["CC level"]
                        /\ payload.cc_energy = CcListed[1].data.energy.total.au
                /\ Len(payload.EOM) = Len(roots)
                /\ \A i \in 1..Len(roots) :
                    LET entry == payload.EOM[i]
                    IN  /\ DOMAIN entry = {"irrep", "energy", "model"}
                        /\ DOMAIN entry.irrep = {"name", "energy #"}
                        /\ entry.irrep.name = roots[i].irrep.name
                        /\ entry.irrep["energy #"] = roots[i].irrep["energy #"]
                        /\ entry.energy = TotalAu(roots[i])
                        /\ entry.model = roots[i].model)
    /\ [][(prog = "xncc" /\ pc = "cbs") => roots' = roots]_vars

\* The payload of three roots of which the second in energy is the first
\* of its irrep.
C16_Witness ==
    /\ CbsPrinted
    /\ Len(stdout[1].json.EOM) = 3
    /\ stdout[1].json.EOM[2].irrep["energy #"] = 1
    /\ stdout[1].json.basis = Some(<<"P", "V", "D", "Z">>)

\* print_cfour_excite_section has returned.
ExcitePrinted ==
    /\ prog = "xncc"
    /\ args.excite
    /\ pc \in {"json", "summary", "done"}

\* The place in stdout of the header of the excite section.
ExciteHeader == IF args.cbs THEN 2 ELSE 1

\* The singles of roots[k] with |amplitude| > 0.1, read from the root.
SinglesAbove(k) ==
    SelectSeq(roots[k]["converged root"].singles,
              LAMBDA x : x.amplitude > 1000 \/ x.amplitude < -1000)

\* The place in stdout of the count line of roots[k], when each root before
\* it has a count line and one line for each of its singles above 0.1.
RECURSIVE CountLinePlace(_)
CountLinePlace(k) ==
    IF k = 1 THEN ExciteHeader + 2
    ELSE CountLinePlace(k - 1) + 1 + Len(SinglesAbove(k - 1))

\* C17: print_cfour_excite_section writes the header, the number of roots
\* N, then for each of the N extracted roots in ascending order of total
\* energy a count line followed by that many lines
\* '1 <occ> 0 <virt> 0 <amplitude to 3 decimals>', one for each single of
\* the root with |amplitude| > 0.1 in the order of the root's list; a root
\* without such a single has the count line '0' and no other line; no root
\* is left out and nothing else is written.
C17_ExciteSection ==
    ExcitePrinted =>
        /\ Len(roots) = Extracted
        /\ \A i, j \in 1..Len(roots) :
              i < j => TotalAu(roots[i]) <= TotalAu(roots[j])
        /\ stdout[ExciteHeader] = Msg("%excite*")
        /\ stdout[ExciteHeader + 1] = Text(IntStr(Len(roots)))
        /\ Len(stdout) >= CountLinePlace(Len(roots) + 1) - 1
        /\ pc = "json" => Len(stdout) = CountLinePlace(Len(roots) + 1) - 1
        /\ \A k \in 1..Len(roots) :
              /\ stdout[CountLinePlace(k)]
                   = Text(IntStr(Len(SinglesAbove(k))))
              /\ \A x \in 1..Len(SinglesAbove(k)) :
                    stdout[CountLinePlace(k) + x]
                      = Text(<<"1", " ">> \o IntStr(SinglesAbove(k)[x].I)
                             \o <<" ", "0", " ">>
                             \o IntStr(SinglesAbove(k)[x].A)
                             \o <<" ", "0", " ">>
                             \o Fmt3(SinglesAbove(k)[x].amplitude))

\* The excite section, written after the CBS payload, of a root whose two
\* singles have amplitudes 0.08 and 0.1: its count line is '0'.
C17_Witness ==
    /\ ExcitePrinted
    /\ args.cbs
    /\ Len(roots) = 1
    /\ Len(roots[1]["converged root"].singles) = 2
    /\ roots[1]["converged root"].singles[2].amplitude = 1000
    /\ SinglesAbove(1) = <<>>
    /\ stdout[4] = Text(<<"0">>)

\* print_eom_roots_summary has returned.
SummaryPrinted ==
    /\ prog \in {"xncc", "xvee"}
    /\ args.summary > 0
    /\ pc = "done"

\* The lines of stdout the summary wrote: those after the CBS payload, the
\* excite section and the JSON snapshot.
SummaryLines ==
    LET before == (IF prog = "xvee" THEN 0
                   ELSE IF args.excite THEN CountLinePlace(Len(roots) + 1) - 1
                   ELSE ExciteHeader - 1)
                  + (IF args.json THEN 1 ELSE 0)
    IN  SubSeq(stdout, before + 1, Len(stdout))

\* The identifier/energy line of roots[k].
IdentifierLine(k) ==
    IF prog = "xncc" THEN XnccSummaryLine(roots[k], Len(roots))
    ELSE XveeSummaryLine(roots[k], Len(roots))

\* The doubles of roots[k] with |amplitude| > 0.1, read from the root.
DoublesAbove(k) ==
    SelectSeq(roots[k]["converged root"].doubles,
              LAMBDA x : x.amplitude > 1000 \/ x.amplitude < -1000)

\* The singles of roots[k] as the summary lists them: label, count, one
\* line each.
SinglesListed(k) ==
    <<Msg("Singles:"), Text(IntStr(Len(SinglesAbove(k))))>>
    \o [x \in 1..Len(SinglesAbove(k)) |->
           Text(<<"1", " ">> \o IntStr(SinglesAbove(k)[x].I)
                \o <<" ", "0", " ">> \o IntStr(SinglesAbove(k)[x].A)
                \o <<" ", "0", " ">> \o Fmt3(SinglesAbove(k)[x].amplitude))]

\* The doubles of roots[k] as the summary lists them: label, count, one
\* line each, a blank line.
DoublesListed(k) ==
    <<Msg("Doubles:"), Text(IntStr(Len(DoublesAbove(k))))>>
    \o [x \in 1..Len(DoublesAbove(k)) |->
           Text(IntStr(DoublesAbove(k)[x].I) \o <<" ">>
                \o IntStr(DoublesAbove(k)[x].J) \o <<" ">>
                \o IntStr(DoublesAbove(k)[x].A) \o <<" ">>
                \o IntStr(DoublesAbove(k)[x].B) \o <<" ">>
                \o Fmt3(DoublesAbove(k)[x].amplitude))]
    \o <<Msg("\n")>>

\* C18: for the roots of both extractors the summary writes the roots in
\* ascending order of total energy; at verbosity 1 one identifier/energy
\* line per root and nothing else; at verbosity 2 each identifier/energy
\* line is followed by the root's singles above the threshold (count, then
\* one line each); at verbosity 3 or more these are followed by the root's
\* doubles above the threshold; the identifier/energy lines are the same
\* at every verbosity.
C18_SummaryTiers ==
    SummaryPrinted =>
        /\ \A i, j \in 1..Len(roots) :
              i < j => TotalAu(roots[i]) <= TotalAu(roots[j])
        /\ args.summary >= 2 =>
              \A k \in 1..Len(roots) : HasKey(roots[k], "converged root")
        /\ SummaryLines
             = Concat([k \in 1..Len(roots) |->
                        <<IdentifierLine(k)>>
                        \o (IF args.summary >= 2 THEN SinglesListed(k)
                            ELSE <<>>)
                        \o (IF args.summary >= 3 THEN DoublesListed(k)
                            ELSE <<>>)])

\* The records the extractor returns for the document, in its order: the
\* model, the irrep number and the total energy of each.
ExtractedRecords ==
    IF prog = "xncc"
    THEN Map(collect_eom_roots_xncc(cfour).roots, LAMBDA r :
            [model |-> r.model, irrep |-> r.irrep["#"], au |-> TotalAu(r)])
    ELSE Map(SelectSeq(ScannedSolutions, LAMBDA x : x.metadata.ok = TRUE),
             LAMBDA x : [model |-> x.data.model, irrep |-> x.data.irrep["#"],
                         au |-> x.data.energy.total.au])

\* C19: from the return of add_root_ids on, through irrep enrichment,
\* excitation energies and the emitters, the values ids['#'] of the N roots
\* are the numbers 0..N-1, each once, and the root with ids['#'] = i is the
\* i-th record (from 0) the extractor returned, whatever its energy.
C19_InsertionIds ==
    AfterRootIds =>
        /\ Len(roots) = Len(ExtractedRecords)
        /\ \A i \in 0..(Len(roots) - 1) :
              Cardinality({k \in 1..Len(roots) : roots[k].ids["#"] = i}) = 1
        /\ \A k \in 1..Len(roots) :
              LET record == ExtractedRecords[roots[k].ids["#"] + 1]
              IN  /\ roots[k].model = record.model
                  /\ roots[k].irrep["#"] = record.irrep
                  /\ TotalAu(roots[k]) = record.au

\* Three xncc roots after the excite section and the summary: the first
\* extracted has the highest energy and another irrep than the second.
C19_Witness ==
    /\ prog = "xncc" /\ pc = "done" /\ args.summary > 0 /\ args.excite
    /\ Len(roots) = 3
    /\ roots[3].ids["#"] = 0
    /\ roots[1].ids["#"] = 1
    /\ roots[1].irrep["#"] # roots[3].irrep["#"]
    /\ TotalAu(roots[1]) < TotalAu(roots[3])

\* The sections of the last xjoda program of the document, and the places
\* among them of the sections named 'normal coordinates'.
LastXjodaSections ==
    LET places == {p \in 1..Len(cfour) : cfour[p].name = "xjoda"}
    IN  cfour[CHOOSE p \in places : \A q \in places : q <= p].sections

NormalCoordinatesPlaces ==
    {i \in 1..Len(LastXjodaSections) :
        LastXjodaSections[i].name = "normal coordinates"}

LastNormalCoordinates ==
    LastXjodaSections[CHOOSE i \in NormalCoordinatesPlaces :
                          \A j \in NormalCoordinatesPlaces : j <= i]

\* collect_normal_coordinates was called on a document with an xjoda
\* program.
NormalCoordinatesAsked ==
    /\ prog = "collect_normal_coordinates"
    /\ \E p \in 1..Len(cfour) : cfour[p].name = "xjoda"

\* C20 as stated: on a document with an xjoda program,
\* collect_normal_coordinates returns the data of the last section named
\* 'normal coordinates' of the last xjoda program, whatever the earlier
\* sections of that name hold, also when an earlier one lacks the data
\* member.
C20_LastMatchWins ==
    (/\ NormalCoordinatesAsked
     /\ NormalCoordinatesPlaces # {}
     /\ HasKey(LastNormalCoordinates.data, "normal coordinates")) =>
        /\ raised = "none"
        /\ pc = "returned" =>
              returned = Some(LastNormalCoordinates.data["normal coordinates"])

\* C20 amended: on a document with an xjoda program,
\* collect_normal_coordinates reads the last xjoda program only and does
\* not raise; if one of its sections named 'normal coordinates' lacks the
\* data member it returns the empty list and prints an error; else it
\* returns the data of the last such section, whatever the data of the
\* earlier ones, or None with a warning when there is no such section.
C20_LastCompleteMatchWins ==
    NormalCoordinatesAsked =>
        /\ raised = "none"
        /\ pc = "returned" =>
              IF \E i \in NormalCoordinatesPlaces :
                    "normal coordinates" \notin DOMAIN LastXjodaSections[i].data
              THEN /\ returned = Some(<<>>)
                   /\ Len(stderr) = 1
              ELSE IF NormalCoordinatesPlaces = {}
              THEN /\ returned = None
                   /\ Len(stderr) = 1
              ELSE /\ returned
                        = Some(LastNormalCoordinates.data["normal coordinates"])
                   /\ stderr = <<>>

\* Two xjoda programs, the first with normal coordinates of its own; the
\* last has two sections of normal coordinates and the query returned the
\* data of the second.
C20_Witness ==
    /\ NormalCoordinatesAsked /\ pc = "returned"
    /\ Len(cfour) = 2
    /\ cfour[1].name = "xjoda"
    /\ \E i \in 1..Len(cfour[1].sections) :
          cfour[1].sections[i].name = "normal coordinates"
    /\ Cardinality(NormalCoordinatesPlaces) = 2
    /\ LastXjodaSections[1].data # LastXjodaSections[2].data
    /\ returned = Some(<<Mode(<<"B", "1">>, 300)>>)

\* The 'eom root' containers the extractor reaches, read from the document:
\* those of the first xncc program, each with its 'irrep' container's data.
ReachedContainers ==
    LET programs == {p \in 1..Len(cfour) : cfour[p].name = "xncc"}
    IN  IF programs = {} THEN <<>>
        ELSE LET first == CHOOSE p \in programs : \A q \in programs : p <= q
             IN  EomRootContainers(cfour[first])

\* The data of the children of the container that are named `name`.
OwnChildren(container, name) ==
    {container.eom_root.sections[x].data :
        x \in {y \in 1..Len(container.eom_root.sections) :
                  container.eom_root.sections[y].name = name}}

\* C21: when collect_eom_roots_xncc has returned, its i-th record is the one
\* emitted for the i-th 'eom root' container it reached and carries that
\* container's model, the data of that container's 'irrep' container, and
\* amplitudes and an energy that are data of that very container's own
\* 'converged root' and 'EOM energy' children (never those of an earlier
\* container); the irrep data of the records are independent copies: after
\* irrep enrichment two records of the same irrep container carry different
\* values of 'energy #', and the document's irrep data is as it was loaded.
C21_RecordsCarryOwnContainer ==
    prog = "xncc" =>
        /\ pc = "add_root_ids" =>
              /\ Len(roots) <= Len(ReachedContainers)
              /\ \A i \in 1..Len(roots) :
                    LET own == ReachedContainers[i]
                    IN  /\ roots[i].model = own.eom_root.data.model
                        /\ roots[i].irrep = own.irrep_data
                        /\ roots[i]["converged root"]
                             \in OwnChildren(own, "converged root")
                        /\ roots[i].energy \in OwnChildren(own, "EOM energy")
        /\ AfterIrrep =>
              /\ \A i, j \in 1..Len(roots) :
                    (i # j /\ roots[i].irrep["#"] = roots[j].irrep["#"])
                        => roots[i].irrep["energy #"]
                             # roots[j].irrep["energy #"]
              /\ \A i \in 1..Len(ReachedContainers) :
                    DOMAIN ReachedContainers[i].irrep_data = {"#"}

\* The places <<program, section>> of the ok 'A miracle' sections of the
\* xvcc programs of the document.
MiraclePlaces ==
    {place \in UNION {{<<p, x>> : x \in 1..Len(cfour[p].sections)} :
                        p \in {q \in 1..Len(cfour) : cfour[q].name = "xvcc"}} :
        /\ cfour[place[1]].sections[place[2]].name = "A miracle"
        /\ cfour[place[1]].sections[place[2]].metadata.ok # FALSE}

\* The number of ok 'A miracle' sections up to the one at the place, in
\* document order.
MiracleRank(place) ==
    Cardinality({other \in MiraclePlaces :
        \/ other[1] < place[1]
        \/ other[1] = place[1] /\ other[2] <= place[2]})

\* C22: of several programs of one name the root extractors read the first
\* only. The records collect_eom_roots_xncc returns are those of the 'eom
\* root' containers of the first xncc program, in order (none when it has
\* none), and those collect_eom_roots_xvee returns are the ok 'eom solution'
\* sections of the first xvee program, in order; collect_ccsd returns the
\* energies of the ok 'A miracle' sections of every xvcc program in document
\* order, and every xvee root's excitation energy is its total energy minus
\* the first of them.
C22_FirstSameNamedProgram ==
    /\ (prog = "xncc" /\ pc = "add_root_ids") =>
          /\ Len(FullyFormed) <= Len(roots)
          /\ Len(roots) <= Len(ReachedContainers)
          /\ \A i \in 1..Len(roots) :
                /\ roots[i].model = ReachedContainers[i].eom_root.data.model
                /\ roots[i].irrep = ReachedContainers[i].irrep_data
                /\ roots[i].energy
                     \in UNION {OwnChildren(ReachedContainers[k], "EOM energy") :
                                  k \in 1..Len(ReachedContainers)}
    /\ (prog = "xvee" /\ pc = "add_root_ids") =>
          LET ok == SelectSeq(ScannedSolutions,
                              LAMBDA x : x.metadata.ok # FALSE)
          IN  /\ Len(roots) = Len(ok)
              /\ \A i \in 1..Len(roots) :
                    /\ roots[i].model = ok[i].data.model
                    /\ roots[i].irrep = ok[i].data.irrep
                    /\ roots[i].energy = ok[i].data.energy
    /\ (prog = "xvee" /\ pc # "collect_ccsd") =>
          /\ Len(cc_energies) = Cardinality(MiraclePlaces)
          /\ \A place \in MiraclePlaces :
                cc_energies[MiracleRank(place)]
                    = cfour[place[1]].sections[place[2]].data.energy.total.au
    /\ AfterExcitation =>
          \A i \in 1..Len(roots) :
              roots[i].energy.excitation.au = TotalAu(roots[i]) - cc_energies[1]

\* An xvee run on a document with two xvee programs of one solution each
\* and two xvcc programs, the second after the first xvee program: the one
\* root is that of the first xvee program and its excitation energy is
\* counted from the energy of the first xvcc program.
C22_Witness ==
    /\ prog = "xvee" /\ pc = "done" /\ raised = "none"
    /\ Len(Named(cfour, "xvee")) = 2
    /\ Len(Named(cfour, "xvee")[2].sections) = 1
    /\ Len(cfour) = 5 /\ cfour[4].name = "xvcc"
    /\ cc_energies = <<-75200, -75235>>
    /\ Len(roots) = 1
    /\ roots[1].irrep["#"] = 1
    /\ Named(cfour, "xvee")[2].sections[1].data.irrep["#"] = 2
    /\ roots[1].energy.excitation.au = 160

====
